---- MODULE Spec2Model ----
(***************************************************************************)
(* Brand Expense Tracker (src/app.py): the expenses table, the users       *)
(* table, the logged-in sessions and the three approval pages, as a state  *)
(* machine.  Each page action is one Streamlit script run: the run reads   *)
(* the stage's pending queue and then executes the handler of the button   *)
(* that was clicked.  Spec takes a run as one step; SpecRace splits it at  *)
(* the point between the queue's SELECT and the handler's UPDATE, where    *)
(* the runs of other sessions can interleave.                              *)
(***************************************************************************)
EXTENDS Integers, Sequences, FiniteSets, TLC

VARIABLES
    users,      \* the users table: a set of rows
    sqlite_sequence, \* the largest id AUTOINCREMENT has given to a row of users
    expenses,   \* the expenses table: a sequence of rows, row i has id i
    session,    \* st.session_state of each browser session
    now,        \* the wall clock read by CURRENT_TIMESTAMP and datetime.now()
    pc,         \* per session: "idle", or the page whose run has read its queue
    pending,    \* per session: the pending_expenses the running script has read
    last,       \* what the last handler was asked and what it reported
    row,        \* the row handed to get_overall_status (SpecStatus)
    overall,    \* the two labels get_overall_status returned for row
    metrics     \* the figures the Dashboard showed on its last run

vars == <<users, sqlite_sequence, expenses, session, now, pc, pending, last, row, overall, metrics>>

----------------------------------------------------------------------------
(* Bounds of the model *)

MaxExpenses == 2
MaxRaceExpenses == 1
MaxClock == 2
MaxUserId == 7
MaxDashExpenses == 3

----------------------------------------------------------------------------
(* Program constants *)

USER_ROLES == {"hr", "brand_heads", "stage2_approver", "accounts_team", "admin"}

BRANDS ==
    {"FundoBaBa", "Salary Adda", "FastPaise", "SnapPaisa", "Salary 4 Sure",
     "Duniya Finance", "Tejas", "BlinkR", "Salary Setu", "Qua Loans",
     "Paisa Pop", "Salary 4 You", "Rupee Hype", "Minutes Loan", "Squid Loan",
     "Zepto", "Paisa on Salary", "Jhatpat"}

\* CATEGORIES: category |-> its subcategories
CATEGORIES ==
    [c \in {"Technology & Software", "Rental", "Assets", "Utility", "Marketing",
            "Petty Cash", "Salaries", "Incentives", "Celebrations/Events",
            "Maintenance", "Others"} |->
        CASE c = "Technology & Software" ->
                {"AWS", "G-Suite", "IVR-Dialer", "APIs", "Cursar", "Third Party Tool",
                 "HRMS", "Microsoft 365", "Power BI", "Metabase"}
          [] c = "Assets" -> {"Laptops", "Phone", "SIM"}
          [] c = "Utility" ->
                {"Electricity Bill", "Water Bill", "Pantry Supplies", "Cleaning Supplies"}
          [] c = "Marketing" ->
                {"Google", "Meta", "Twitter", "RCS", "Whatsapp", "Affiliate",
                 "Database Purchase", "Mailgun", "Agency", "Design"}
          [] OTHER -> {}]

PAYMENT_MODES == {"Cash", "Bank Transfer", "Cheque", "UPI", "Card", "Other"}

\* SQL NULL / Python None in a text column, and in a TIMESTAMP column
NULL == "NULL"
NullTime == 0

\* Python truthiness of a text value: None and "" are falsy
Truthy(v) == v # NULL /\ v # ""

\* hashlib.sha256(p.encode()).hexdigest()
Sha256(p) == <<"sha256", p>>

----------------------------------------------------------------------------
(* The users table *)

AdminRow ==
    [id |-> 1, username |-> "admin", password |-> Sha256("admin123"),
     full_name |-> "System Administrator", role |-> "admin", is_active |-> 1]

\* A start-up that writes the default admin row on every run
init_db_users_Reseed(us) == {u \in us : u.username # "admin"} \cup {AdminRow}

\* init_db: the tables are created and the default admin is inserted if absent
init_db_users(us) ==
    IF \E u \in us : u.username = "admin" THEN us ELSE us \cup {AdminRow}

\* The accounts an administrator has created through User Management before the
\* workflow starts: one per approver role and one HR submitter.
StaffRows ==
    {[id |-> 2, username |-> "swati", password |-> Sha256("swati123"),
      full_name |-> "Swati", role |-> "brand_heads", is_active |-> 1],
     [id |-> 3, username |-> "shruti", password |-> Sha256("shruti123"),
      full_name |-> "Shruti", role |-> "stage2_approver", is_active |-> 1],
     [id |-> 4, username |-> "hansi", password |-> Sha256("hansi123"),
      full_name |-> "Hansi", role |-> "accounts_team", is_active |-> 1],
     [id |-> 5, username |-> "harsh", password |-> Sha256("harsh123"),
      full_name |-> "Harsh", role |-> "hr", is_active |-> 1]}

\* A query for the brand heads that does not look at is_active
get_brand_heads_All(us) ==
    {u.full_name : u \in {v \in us : v.role = "brand_heads"}}

\* get_brand_heads: the full names of the active users with role brand_heads
get_brand_heads(us) ==
    {u.full_name : u \in {v \in us : v.role = "brand_heads" /\ v.is_active = 1}}

\* update_user_status: UPDATE users SET is_active = ? WHERE id = ?
\* A status update that also moves the account to the role hr
update_user_status_Demote(us, user_id, is_active) ==
    {IF u.id = user_id THEN [u EXCEPT !.is_active = is_active, !.role = "hr"] ELSE u : u \in us}

update_user_status(us, user_id, is_active) ==
    {IF u.id = user_id THEN [u EXCEPT !.is_active = is_active] ELSE u : u \in us}

\* An authentication that does not look at is_active
authenticate_user_IgnoreActive(us, username, password) ==
    {u \in us : u.username = username /\ u.password = Sha256(password)}

\* authenticate_user: the rows with this username, this password hash and
\* is_active = 1 (the username is UNIQUE: at most one)
authenticate_user(us, username, password) ==
    {u \in us : u.username = username /\ u.password = Sha256(password) /\ u.is_active = 1}

\* delete_user: DELETE FROM users WHERE id = ? AND username != 'admin'
delete_user(us, user_id) ==
    {u \in us : ~(u.id = user_id /\ u.username # "admin")}

\* reset_user_password: UPDATE users SET password = ? WHERE id = ?
reset_user_password(us, user_id, new_password) ==
    {IF u.id = user_id THEN [u EXCEPT !.password = Sha256(new_password)] ELSE u : u \in us}

\* change_password, the check: SELECT id FROM users WHERE username = ? AND
\* password = ? finds a row
PasswordMatches(us, username, old_password) ==
    \E u \in us : u.username = username /\ u.password = Sha256(old_password)

\* change_password: UPDATE users SET password = ? WHERE username = ?, when the
\* old password is that of the user
change_password(us, username, old_password, new_password) ==
    IF PasswordMatches(us, username, old_password)
    THEN {IF u.username = username THEN [u EXCEPT !.password = Sha256(new_password)] ELSE u :
             u \in us}
    ELSE us

\* The id AUTOINCREMENT gives the next row: one more than the largest id the
\* table has ever held
NextUserId(us) ==
    LET ids == {u.id : u \in us} \cup {sqlite_sequence}
    IN  1 + CHOOSE m \in ids : \A k \in ids : k <= m

\* An insert that replaces the row of a username already taken (INSERT OR REPLACE)
create_user_Upsert(us, username, password, full_name, role) ==
    {u \in us : u.username # username}
        \cup {[id |-> NextUserId(us), username |-> username,
                password |-> Sha256(password), full_name |-> full_name,
                role |-> role, is_active |-> 1]}

\* create_user: INSERT INTO users; the UNIQUE username makes the insert fail
create_user(us, username, password, full_name, role) ==
    IF \E u \in us : u.username = username
    THEN us
    ELSE us \cup {[id |-> NextUserId(us), username |-> username,
                    password |-> Sha256(password), full_name |-> full_name,
                    role |-> role, is_active |-> 1]}

----------------------------------------------------------------------------
(* Sessions *)

LoggedOut ==
    [logged_in |-> FALSE, username |-> NULL, full_name |-> NULL, user_role |-> NULL]

\* session_state after a successful login of user row u
LoggedInAs(u) ==
    [logged_in |-> TRUE, username |-> u.username, full_name |-> u.full_name,
     user_role |-> u.role]

Sessions == 1..5

\* Every account of the directory has logged in from its own browser.
StaffSessions ==
    [s \in Sessions |->
        LoggedInAs(CHOOSE u \in init_db_users({}) \cup StaffRows : u.id = s)]

\* A navigation that offers every page to every role
CanOpen_AnyRole(role, page) == TRUE

\* page_options: the pages the navigation offers to a role
CanOpen(role, page) ==
    CASE page = "Add Expense" -> TRUE
      [] page = "My Expenses" -> role = "hr"
      [] page = "Change Password" -> TRUE
      [] page \in {"Dashboard", "View All Expenses"} -> role # "hr"
      [] page = "Approval Stage 1" -> role \in {"brand_heads", "admin"}
      [] page = "Approval Stage 2" -> role \in {"stage2_approver", "admin"}
      [] page = "Approval Stage 3" -> role \in {"accounts_team", "admin"}
      [] page = "User Management" -> role = "admin"
      [] OTHER -> FALSE

----------------------------------------------------------------------------
(* The expenses table *)

\* An INSERT that carries a stage status over instead of taking the column default
NewExpenseRow_StaleStage(id, date, brand, category, subcategory, amount, description, added_by, assigned_to, created_at) ==
    [id |-> id, date |-> date, brand |-> brand, category |-> category,
     subcategory |-> subcategory, amount |-> amount, description |-> description,
     bill_document |-> NULL, bill_filename |-> NULL, bill_filetype |-> NULL,
     added_by |-> added_by, stage1_assigned_to |-> assigned_to,
     stage1_status |-> "Approved", stage1_approved_by |-> added_by,
     stage1_approved_date |-> created_at, stage1_remarks |-> NULL,
     stage2_status |-> "Pending", stage2_approved_by |-> NULL,
     stage2_approved_date |-> NullTime, stage2_remarks |-> NULL,
     stage3_status |-> "Pending", stage3_paid_by |-> NULL,
     stage3_paid_date |-> NullTime, stage3_payment_mode |-> NULL,
     stage3_transaction_ref |-> NULL, stage3_remarks |-> NULL,
     created_at |-> created_at]

\* INSERT INTO expenses: the row add_expense stores, the stage columns at their
\* column defaults
NewExpenseRow(id, date, brand, category, subcategory, amount, description, added_by, assigned_to, created_at) ==
    [id |-> id, date |-> date, brand |-> brand, category |-> category,
     subcategory |-> subcategory, amount |-> amount, description |-> description,
     bill_document |-> NULL, bill_filename |-> NULL, bill_filetype |-> NULL,
     added_by |-> added_by, stage1_assigned_to |-> assigned_to,
     stage1_status |-> "Pending", stage1_approved_by |-> NULL,
     stage1_approved_date |-> NullTime, stage1_remarks |-> NULL,
     stage2_status |-> "Pending", stage2_approved_by |-> NULL,
     stage2_approved_date |-> NullTime, stage2_remarks |-> NULL,
     stage3_status |-> "Pending", stage3_paid_by |-> NULL,
     stage3_paid_date |-> NullTime, stage3_payment_mode |-> NULL,
     stage3_transaction_ref |-> NULL, stage3_remarks |-> NULL,
     created_at |-> created_at]

\* A bill update that replaces the row (REPLACE INTO): the other columns go back
\* to their defaults
update_expense_bill_Replace(es, expense_id, bill_document, bill_filename, bill_filetype) ==
    [i \in 1..Len(es) |->
        IF es[i].id = expense_id
        THEN [NewExpenseRow(es[i].id, es[i].date, es[i].brand, es[i].category,
                            es[i].subcategory, es[i].amount, es[i].description,
                            es[i].added_by, es[i].stage1_assigned_to, es[i].created_at)
                 EXCEPT !.bill_document = bill_document,
                        !.bill_filename = bill_filename,
                        !.bill_filetype = bill_filetype]
        ELSE es[i]]

\* UPDATE expenses SET bill_document = ?, bill_filename = ?, bill_filetype = ?
\* WHERE id = ?
update_expense_bill(es, expense_id, bill_document, bill_filename, bill_filetype) ==
    [i \in 1..Len(es) |->
        IF es[i].id = expense_id
        THEN [es[i] EXCEPT !.bill_document = bill_document,
                           !.bill_filename = bill_filename,
                           !.bill_filetype = bill_filetype]
        ELSE es[i]]

\* An insert that keeps the whole rupees of the amount only
add_expense_WholeRupees(es, date, brand, category, subcategory, amount, description, added_by, assigned_to, t) ==
    Append(es, NewExpenseRow(Len(es) + 1, date, brand, category, subcategory,
                             amount - (amount % 100), description, added_by, assigned_to, t))

add_expense(es, date, brand, category, subcategory, amount, description, added_by, assigned_to, t) ==
    Append(es, NewExpenseRow(Len(es) + 1, date, brand, category, subcategory,
                             amount, description, added_by, assigned_to, t))

\* ORDER BY created_at DESC: a stable insertion sort of rows on created_at
RECURSIVE InsertByCreatedAtDesc(_, _)
InsertByCreatedAtDesc(sorted, r) ==
    IF sorted = <<>> THEN <<r>>
    ELSE IF Head(sorted).created_at >= r.created_at
         THEN <<Head(sorted)>> \o InsertByCreatedAtDesc(Tail(sorted), r)
         ELSE <<r>> \o sorted

RECURSIVE OrderByCreatedAtDesc(_)
OrderByCreatedAtDesc(rows) ==
    IF rows = <<>> THEN <<>>
    ELSE InsertByCreatedAtDesc(OrderByCreatedAtDesc(SubSeq(rows, 1, Len(rows) - 1)),
                               rows[Len(rows)])

\* ORDER BY date DESC: a stable insertion sort of rows on the expense date
RECURSIVE InsertByDateDesc(_, _)
InsertByDateDesc(sorted, r) ==
    IF sorted = <<>> THEN <<r>>
    ELSE IF Head(sorted).date >= r.date
         THEN <<Head(sorted)>> \o InsertByDateDesc(Tail(sorted), r)
         ELSE <<r>> \o sorted

RECURSIVE OrderByDateDesc(_)
OrderByDateDesc(rows) ==
    IF rows = <<>> THEN <<>>
    ELSE InsertByDateDesc(OrderByDateDesc(SubSeq(rows, 1, Len(rows) - 1)),
                          rows[Len(rows)])

\* SELECT * FROM expenses ORDER BY date DESC
get_all_expenses(es) == OrderByDateDesc(es)

\* A listing of a submitter's expenses without its ORDER BY: the rows in id order
get_expenses_by_user_Unordered(es, username) ==
    LET Match(e) == e.added_by = username
    IN  SelectSeq(es, Match)

\* SELECT * FROM expenses WHERE added_by = ? ORDER BY created_at DESC
get_expenses_by_user(es, username) ==
    LET Match(e) == e.added_by = username
    IN  OrderByCreatedAtDesc(SelectSeq(es, Match))

\* A queue ordered newest first
OrderByCreatedAtAsc_NewestFirst(rows) == OrderByCreatedAtDesc(rows)

\* ORDER BY created_at ASC: a stable insertion sort of rows on created_at
RECURSIVE InsertByCreatedAt(_, _)
InsertByCreatedAt(sorted, r) ==
    IF sorted = <<>> THEN <<r>>
    ELSE IF Head(sorted).created_at <= r.created_at
         THEN <<Head(sorted)>> \o InsertByCreatedAt(Tail(sorted), r)
         ELSE <<r>> \o sorted

RECURSIVE OrderByCreatedAtAsc(_)
OrderByCreatedAtAsc(rows) ==
    IF rows = <<>> THEN <<>>
    ELSE InsertByCreatedAt(OrderByCreatedAtAsc(SubSeq(rows, 1, Len(rows) - 1)),
                           rows[Len(rows)])

\* A WHERE clause whose stage-3 queue does not wait for stage 2
ApprovalWhere_Stage3AfterStage1(e, stage, username) ==
    CASE stage = 1 ->
            IF Truthy(username)
            THEN e.stage1_status = "Pending" /\ e.stage1_assigned_to = username
            ELSE e.stage1_status = "Pending"
      [] stage = 2 -> e.stage1_status = "Approved" /\ e.stage2_status = "Pending"
      [] stage = 3 -> e.stage1_status = "Approved" /\ e.stage3_status = "Pending"

\* A WHERE clause that looks at the stage's own status only
ApprovalWhere_OwnStatusOnly(e, stage, username) ==
    CASE stage = 1 ->
            IF Truthy(username)
            THEN e.stage1_status = "Pending" /\ e.stage1_assigned_to = username
            ELSE e.stage1_status = "Pending"
      [] stage = 2 -> e.stage2_status = "Pending"
      [] stage = 3 -> e.stage3_status = "Pending"

\* The WHERE clause of get_expenses_for_approval
ApprovalWhere(e, stage, username) ==
    CASE stage = 1 ->
            IF Truthy(username)
            THEN e.stage1_status = "Pending" /\ e.stage1_assigned_to = username
            ELSE e.stage1_status = "Pending"
      [] stage = 2 -> e.stage1_status = "Approved" /\ e.stage2_status = "Pending"
      [] stage = 3 ->
            /\ e.stage1_status = "Approved"
            /\ e.stage2_status = "Approved"
            /\ e.stage3_status = "Pending"

get_expenses_for_approval(es, stage, username) ==
    LET Match(e) == ApprovalWhere(e, stage, username)
    IN  OrderByCreatedAtAsc(SelectSeq(es, Match))

\* A history query that does not ask who decided
HistoryWhere_AnyActor(e, stage, username) ==
    CASE stage = 1 -> e.stage1_status \in {"Approved", "Rejected"}
      [] stage = 2 -> e.stage2_status \in {"Approved", "Rejected"}
      [] stage = 3 -> e.stage3_status \in {"Paid", "Rejected"}

\* The WHERE clause of get_approved_expenses_by_user for each stage
HistoryWhere(e, stage, username) ==
    CASE stage = 1 ->
            e.stage1_approved_by = username /\ e.stage1_status \in {"Approved", "Rejected"}
      [] stage = 2 ->
            e.stage2_approved_by = username /\ e.stage2_status \in {"Approved", "Rejected"}
      [] stage = 3 ->
            e.stage3_paid_by = username /\ e.stage3_status \in {"Paid", "Rejected"}

\* The column get_approved_expenses_by_user orders by
HistoryDate(e, stage) ==
    CASE stage = 1 -> e.stage1_approved_date
      [] stage = 2 -> e.stage2_approved_date
      [] stage = 3 -> e.stage3_paid_date

\* ORDER BY stageN date DESC: a stable insertion sort on the decision time
RECURSIVE InsertByHistoryDateDesc(_, _, _)
InsertByHistoryDateDesc(sorted, r, stage) ==
    IF sorted = <<>> THEN <<r>>
    ELSE IF HistoryDate(Head(sorted), stage) >= HistoryDate(r, stage)
         THEN <<Head(sorted)>> \o InsertByHistoryDateDesc(Tail(sorted), r, stage)
         ELSE <<r>> \o sorted

RECURSIVE OrderByHistoryDateDesc(_, _)
OrderByHistoryDateDesc(rows, stage) ==
    IF rows = <<>> THEN <<>>
    ELSE InsertByHistoryDateDesc(OrderByHistoryDateDesc(SubSeq(rows, 1, Len(rows) - 1), stage),
                                 rows[Len(rows)], stage)

\* get_approved_expenses_by_user: the decisions of a user at a stage, latest first
get_approved_expenses_by_user(es, username, stage) ==
    LET Match(e) == HistoryWhere(e, stage, username)
    IN  OrderByHistoryDateDesc(SelectSeq(es, Match), stage)

\* the ids of the rows of a query result
Ids(rows) == {rows[i].id : i \in 1..Len(rows)}

\* A stage-1 write whose rejection closes the later stages as well
approve_expense_stage1_Cascade(es, expense_id, approved_by, status, remarks, t) ==
    [i \in 1..Len(es) |->
        IF es[i].id = expense_id
        THEN IF status = "Rejected"
             THEN [es[i] EXCEPT !.stage1_status = status,
                                !.stage1_approved_by = approved_by,
                                !.stage1_approved_date = t,
                                !.stage1_remarks = remarks,
                                !.stage2_status = status,
                                !.stage3_status = status]
             ELSE [es[i] EXCEPT !.stage1_status = status,
                                !.stage1_approved_by = approved_by,
                                !.stage1_approved_date = t,
                                !.stage1_remarks = remarks]
        ELSE es[i]]

\* UPDATE expenses SET stage1_... WHERE id = ?
approve_expense_stage1(es, expense_id, approved_by, status, remarks, t) ==
    [i \in 1..Len(es) |->
        IF es[i].id = expense_id
        THEN [es[i] EXCEPT !.stage1_status = status,
                           !.stage1_approved_by = approved_by,
                           !.stage1_approved_date = t,
                           !.stage1_remarks = remarks]
        ELSE es[i]]

\* UPDATE expenses SET stage2_... WHERE id = ?
\* A stage-2 write that does not name the approver
approve_expense_stage2_Anonymous(es, expense_id, approved_by, status, remarks, t) ==
    [i \in 1..Len(es) |->
        IF es[i].id = expense_id
        THEN [es[i] EXCEPT !.stage2_status = status,
                           !.stage2_approved_date = t,
                           !.stage2_remarks = remarks]
        ELSE es[i]]

approve_expense_stage2(es, expense_id, approved_by, status, remarks, t) ==
    [i \in 1..Len(es) |->
        IF es[i].id = expense_id
        THEN [es[i] EXCEPT !.stage2_status = status,
                           !.stage2_approved_by = approved_by,
                           !.stage2_approved_date = t,
                           !.stage2_remarks = remarks]
        ELSE es[i]]

\* A stage-3 write whose rejection sends the record back to stage 2
approve_expense_stage3_Reopen(es, expense_id, paid_by, status, payment_mode, transaction_ref, remarks, t) ==
    [i \in 1..Len(es) |->
        IF es[i].id = expense_id
        THEN IF status = "Rejected"
             THEN [es[i] EXCEPT !.stage2_status = "Pending",
                                !.stage3_remarks = remarks]
             ELSE [es[i] EXCEPT !.stage3_status = status,
                                !.stage3_paid_by = paid_by,
                                !.stage3_paid_date = t,
                                !.stage3_payment_mode = payment_mode,
                                !.stage3_transaction_ref = transaction_ref,
                                !.stage3_remarks = remarks]
        ELSE es[i]]

\* UPDATE expenses SET stage3_... WHERE id = ?
\* A stage-3 write that keeps the payment columns when it is given none
approve_expense_stage3_Coalesce(es, expense_id, paid_by, status, payment_mode, transaction_ref, remarks, t) ==
    [i \in 1..Len(es) |->
        IF es[i].id = expense_id
        THEN [es[i] EXCEPT !.stage3_status = status,
                           !.stage3_paid_by = paid_by,
                           !.stage3_paid_date = t,
                           !.stage3_payment_mode =
                               IF payment_mode = NULL THEN @ ELSE payment_mode,
                           !.stage3_transaction_ref =
                               IF transaction_ref = NULL THEN @ ELSE transaction_ref,
                           !.stage3_remarks = remarks]
        ELSE es[i]]

approve_expense_stage3(es, expense_id, paid_by, status, payment_mode, transaction_ref, remarks, t) ==
    [i \in 1..Len(es) |->
        IF es[i].id = expense_id
        THEN [es[i] EXCEPT !.stage3_status = status,
                           !.stage3_paid_by = paid_by,
                           !.stage3_paid_date = t,
                           !.stage3_payment_mode = payment_mode,
                           !.stage3_transaction_ref = transaction_ref,
                           !.stage3_remarks = remarks]
        ELSE es[i]]

\* A status function that looks for a rejection before it looks for the payment
get_overall_status_RejectedFirst(r) ==
    IF \/ r.stage3_status = "Rejected"
       \/ r.stage2_status = "Rejected"
       \/ r.stage1_status = "Rejected" THEN "Rejected"
    ELSE IF r.stage3_status = "Paid" THEN "Paid"
    ELSE IF r.stage2_status = "Approved" THEN "Payment Pending"
    ELSE IF r.stage1_status = "Approved" THEN "Stage 2 Approval Pending"
    ELSE "Stage 1 Approval Pending"

\* get_overall_status: the label of a row, without the emoji that prefixes it
get_overall_status(r) ==
    IF r.stage3_status = "Paid" THEN "Paid"
    ELSE IF \/ r.stage3_status = "Rejected"
            \/ r.stage2_status = "Rejected"
            \/ r.stage1_status = "Rejected" THEN "Rejected"
    ELSE IF r.stage2_status = "Approved" THEN "Payment Pending"
    ELSE IF r.stage1_status = "Approved" THEN "Stage 2 Approval Pending"
    ELSE "Stage 1 Approval Pending"

----------------------------------------------------------------------------
(* What a handler was asked and what it reported to the user *)

NoRequest ==
    [op |-> "none", by |-> NULL, id |-> 0, button |-> NULL, remarks |-> NULL,
     payment_mode |-> NULL, transaction_ref |-> NULL, amount |-> 0,
     added_by |-> NULL, assigned_to |-> NULL, username |-> NULL,
     password |-> NULL, current_password |-> NULL, date |-> 0, brand |-> NULL, category |-> NULL,
     subcategory |-> NULL, description |-> NULL, outcome |-> "none"]

StageRequest(op, by, id, button, remarks, payment_mode, transaction_ref, outcome) ==
    [NoRequest EXCEPT !.op = op, !.by = by, !.id = id, !.button = button,
                      !.remarks = remarks, !.payment_mode = payment_mode,
                      !.transaction_ref = transaction_ref, !.outcome = outcome]

AddRequest(date, brand, category, subcategory, amount, description, added_by, assigned_to, outcome) ==
    [NoRequest EXCEPT !.op = "add", !.date = date, !.brand = brand,
                      !.category = category, !.subcategory = subcategory,
                      !.amount = amount, !.description = description,
                      !.added_by = added_by, !.assigned_to = assigned_to,
                      !.outcome = outcome]

----------------------------------------------------------------------------
(* Page handlers *)

\* A form that stores the expense without looking at the amount
AddExpenseFormValid_AnyAmount(amount, added_by, assigned_to) ==
    Truthy(added_by) /\ Truthy(assigned_to)

\* A form that stores the expense without looking at the assignee
AddExpenseFormValid_AnyAssignee(amount, added_by, assigned_to) ==
    amount > 0 /\ Truthy(added_by)

\* The condition under which the Add Expense form stores the expense
AddExpenseFormValid(amount, added_by, assigned_to) ==
    amount > 0 /\ Truthy(added_by) /\ Truthy(assigned_to)

\* Add Expense page: the form is submitted.  The brand and the category come from
\* select boxes over BRANDS and CATEGORIES, the amount from a number input with
\* minimum 0, the assignee from a select box over get_brand_heads() (None when
\* there is no brand head).
AddExpensePage(s, date, brand, category, subcategory, amount, description, added_by, assigned_to, cap) ==
    /\ session[s].logged_in
    /\ CanOpen(session[s].user_role, "Add Expense")
    /\ Len(expenses) < cap
    /\ brand \in BRANDS
    /\ category \in DOMAIN CATEGORIES
    /\ IF CATEGORIES[category] # {} THEN subcategory \in CATEGORIES[category]
                                     ELSE subcategory = NULL
    /\ amount >= 0
    /\ IF get_brand_heads(users) # {} THEN assigned_to \in get_brand_heads(users)
                                       ELSE assigned_to = NULL
    /\ IF AddExpenseFormValid(amount, added_by, assigned_to)
       THEN /\ expenses' = add_expense(expenses, date, brand, category, subcategory,
                                       amount, description, added_by, assigned_to, now)
            /\ last' = [AddRequest(date, brand, category, subcategory, amount, description,
                                   added_by, assigned_to, "added")
                           EXCEPT !.by = session[s].full_name]
       ELSE /\ expenses' = expenses
            /\ last' = [AddRequest(date, brand, category, subcategory, amount, description,
                                   added_by, assigned_to, "error")
                           EXCEPT !.by = session[s].full_name]
    /\ UNCHANGED <<users, sqlite_sequence, session, now, pc, pending, row, overall, metrics>>

\* A stage 1 page that lists every record, decided or not
Stage1Queue_AllRecords(s) == expenses

\* A stage 1 page that shows everybody the records assigned to them only
Stage1Queue_AssignedOnly(s) == get_expenses_for_approval(expenses, 1, session[s].full_name)

\* Approval Stage 1 page, tab 1: the queue the page reads
Stage1Queue(s) ==
    IF session[s].user_role = "brand_heads"
    THEN get_expenses_for_approval(expenses, 1, session[s].full_name)
    ELSE get_expenses_for_approval(expenses, 1, NULL)

\* A Reject handler without the remarks check
RejectAllowed_Unchecked(remarks) == TRUE

\* Whether the Reject button's handler writes
RejectAllowed(remarks) == Truthy(remarks)

\* A Mark as Paid handler without the transaction reference check
PaidAllowed_Unchecked(transaction_ref) == TRUE

\* Whether the Mark as Paid button's handler writes
PaidAllowed(transaction_ref) == Truthy(transaction_ref)

\* The buttons of the Approval Stage 1 page for the rows of pend
Stage1Buttons(s, pend, id, button, remarks) ==
    IF id \notin Ids(pend)
    THEN /\ expenses' = expenses
         /\ last' = StageRequest("stage1", session[s].full_name, id, NULL, NULL, NULL, NULL, "not_rendered")
    ELSE IF button = "Approve"
    THEN /\ expenses' = approve_expense_stage1(expenses, id, session[s].full_name,
                                               "Approved", remarks, now)
         /\ last' = StageRequest("stage1", session[s].full_name, id, button, remarks, NULL, NULL, "written")
    ELSE IF RejectAllowed(remarks)
    THEN /\ expenses' = approve_expense_stage1(expenses, id, session[s].full_name,
                                               "Rejected", remarks, now)
         /\ last' = StageRequest("stage1", session[s].full_name, id, button, remarks, NULL, NULL, "written")
    ELSE /\ expenses' = expenses
         /\ last' = StageRequest("stage1", session[s].full_name, id, button, remarks, NULL, NULL, "warning")

\* The buttons of the Approval Stage 2 page for the rows of pend
Stage2Buttons(s, pend, id, button, remarks) ==
    IF id \notin Ids(pend)
    THEN /\ expenses' = expenses
         /\ last' = StageRequest("stage2", session[s].full_name, id, NULL, NULL, NULL, NULL, "not_rendered")
    ELSE IF button = "Approve"
    THEN /\ expenses' = approve_expense_stage2(expenses, id, session[s].full_name,
                                               "Approved", remarks, now)
         /\ last' = StageRequest("stage2", session[s].full_name, id, button, remarks, NULL, NULL, "written")
    ELSE IF RejectAllowed(remarks)
    THEN /\ expenses' = approve_expense_stage2(expenses, id, session[s].full_name,
                                               "Rejected", remarks, now)
         /\ last' = StageRequest("stage2", session[s].full_name, id, button, remarks, NULL, NULL, "written")
    ELSE /\ expenses' = expenses
         /\ last' = StageRequest("stage2", session[s].full_name, id, button, remarks, NULL, NULL, "warning")

\* The buttons of the Approval Stage 3 page for the rows of pend
Stage3Buttons(s, pend, id, button, payment_mode, transaction_ref, remarks) ==
    IF id \notin Ids(pend)
    THEN /\ expenses' = expenses
         /\ last' = StageRequest("stage3", session[s].full_name, id, NULL, NULL, NULL, NULL, "not_rendered")
    ELSE IF button = "Paid"
    THEN IF PaidAllowed(transaction_ref)
         THEN /\ expenses' = approve_expense_stage3(expenses, id, session[s].full_name,
                                "Paid", payment_mode, transaction_ref, remarks, now)
              /\ last' = StageRequest("stage3", session[s].full_name, id, button, remarks, payment_mode,
                                      transaction_ref, "written")
         ELSE /\ expenses' = expenses
              /\ last' = StageRequest("stage3", session[s].full_name, id, button, remarks, payment_mode,
                                      transaction_ref, "warning")
    ELSE IF RejectAllowed(remarks)
    THEN /\ expenses' = approve_expense_stage3(expenses, id, session[s].full_name,
                                               "Rejected", NULL, NULL, remarks, now)
         /\ last' = StageRequest("stage3", session[s].full_name, id, button, remarks, payment_mode,
                                 transaction_ref, "written")
    ELSE /\ expenses' = expenses
         /\ last' = StageRequest("stage3", session[s].full_name, id, button, remarks, payment_mode,
                                 transaction_ref, "warning")

\* One whole script run of the Approval Stage 1 page after a click on the button of
\* expense id: the run reads the queue and executes the button's handler.
Stage1Page(s, id, button, remarks) ==
    /\ session[s].logged_in
    /\ CanOpen(session[s].user_role, "Approval Stage 1")
    /\ button \in {"Approve", "Reject"}
    /\ Stage1Buttons(s, Stage1Queue(s), id, button, remarks)
    /\ UNCHANGED <<users, sqlite_sequence, session, now, pc, pending, row, overall, metrics>>

Stage2Page(s, id, button, remarks) ==
    /\ session[s].logged_in
    /\ CanOpen(session[s].user_role, "Approval Stage 2")
    /\ button \in {"Approve", "Reject"}
    /\ Stage2Buttons(s, get_expenses_for_approval(expenses, 2, NULL), id, button, remarks)
    /\ UNCHANGED <<users, sqlite_sequence, session, now, pc, pending, row, overall, metrics>>

Stage3Page(s, id, button, payment_mode, transaction_ref, remarks) ==
    /\ session[s].logged_in
    /\ CanOpen(session[s].user_role, "Approval Stage 3")
    /\ button \in {"Paid", "Reject"}
    /\ payment_mode \in PAYMENT_MODES
    /\ Stage3Buttons(s, get_expenses_for_approval(expenses, 3, NULL), id, button,
                     payment_mode, transaction_ref, remarks)
    /\ UNCHANGED <<users, sqlite_sequence, session, now, pc, pending, row, overall, metrics>>

\* User Management page: the Deactivate button of an active user, the Activate
\* button of an inactive one; the admin account has neither
\* A user list that shows the Deactivate and Delete buttons under every account
ActionsShown_ForAll(u) == TRUE

\* Whether the user list shows the Deactivate / Activate and Delete buttons
\* under an account
ActionsShown(u) == u.username # "admin"

UserStatusPage(s, user_id) ==
    /\ session[s].logged_in
    /\ CanOpen(session[s].user_role, "User Management")
    /\ \E u \in users :
          /\ u.id = user_id
          /\ ActionsShown(u)
          /\ users' = update_user_status(users, user_id, IF u.is_active = 1 THEN 0 ELSE 1)
    /\ last' = [NoRequest EXCEPT !.op = "user_status", !.by = session[s].full_name,
                                 !.id = user_id, !.outcome = "updated"]
    /\ UNCHANGED <<sqlite_sequence, expenses, session, now, pc, pending, row, overall, metrics>>

\* new_username.lower().strip() on the usernames typed into the form
LowerStrip(typed) ==
    CASE typed = "Swati " -> "swati"
      [] typed = " MEERA" -> "meera"
      [] OTHER -> typed

\* User Management page, Create New User form.  The username is stored lower-cased
\* and stripped; the full name is stored as typed.
CreateUserPage(s, new_username, new_password, new_full_name, new_role) ==
    /\ session[s].logged_in
    /\ CanOpen(session[s].user_role, "User Management")
    /\ new_role \in USER_ROLES
    /\ IF ~(Truthy(new_username) /\ Truthy(new_password) /\ Truthy(new_full_name))
          \/ Len(new_password) < 6
       THEN /\ users' = users
            /\ sqlite_sequence' = sqlite_sequence
            /\ last' = [NoRequest EXCEPT !.op = "create_user", !.by = session[s].full_name,
                                         !.username = LowerStrip(new_username),
                                         !.password = new_password,
                                         !.outcome = "error"]
       ELSE LET after == create_user(users, LowerStrip(new_username), new_password,
                                     new_full_name, new_role)
            IN  /\ users' = after
                /\ IF after # users
                   THEN /\ sqlite_sequence' = NextUserId(users)
                        /\ last' = [NoRequest EXCEPT !.op = "create_user",
                                        !.by = session[s].full_name,
                                        !.username = LowerStrip(new_username),
                                        !.password = new_password,
                                        !.id = NextUserId(users), !.outcome = "created"]
                   ELSE /\ sqlite_sequence' = sqlite_sequence
                        /\ last' = [NoRequest EXCEPT !.op = "create_user",
                                        !.by = session[s].full_name,
                                        !.username = LowerStrip(new_username),
                                        !.password = new_password,
                                        !.outcome = "duplicate"]
    /\ UNCHANGED <<expenses, session, now, pc, pending, row, overall, metrics>>

\* User Management page: the Yes, Delete button of the confirmation of a user
\* other than admin
DeleteUserPage(s, user_id) ==
    /\ session[s].logged_in
    /\ CanOpen(session[s].user_role, "User Management")
    /\ \E u \in users : u.id = user_id /\ ActionsShown(u)
    /\ users' = delete_user(users, user_id)
    /\ last' = [NoRequest EXCEPT !.op = "delete_user", !.by = session[s].full_name,
                                 !.id = user_id, !.outcome = "deleted"]
    /\ UNCHANGED <<sqlite_sequence, expenses, session, now, pc, pending, row, overall, metrics>>

\* User Management page: the Reset button of a user's Reset Password form
ResetPasswordPage(s, user_id, new_pwd) ==
    /\ session[s].logged_in
    /\ CanOpen(session[s].user_role, "User Management")
    /\ \E u \in users : u.id = user_id
    /\ IF Len(new_pwd) >= 6
       THEN /\ users' = reset_user_password(users, user_id, new_pwd)
            /\ last' = [NoRequest EXCEPT !.op = "reset_password", !.by = session[s].full_name,
                                         !.id = user_id, !.password = new_pwd,
                                         !.outcome = "reset"]
       ELSE /\ users' = users
            /\ last' = [NoRequest EXCEPT !.op = "reset_password", !.by = session[s].full_name,
                                         !.id = user_id, !.password = new_pwd,
                                         !.outcome = "error"]
    /\ UNCHANGED <<sqlite_sequence, expenses, session, now, pc, pending, row, overall, metrics>>

\* Change Password page: the form is submitted by the session's user
ChangePasswordPage(s, current_password, new_password, confirm_password) ==
    /\ session[s].logged_in
    /\ CanOpen(session[s].user_role, "Change Password")
    /\ IF /\ Truthy(current_password) /\ Truthy(new_password) /\ Truthy(confirm_password)
          /\ Len(new_password) >= 6
          /\ new_password = confirm_password
          /\ PasswordMatches(users, session[s].username, current_password)
       THEN /\ users' = change_password(users, session[s].username, current_password,
                                         new_password)
            /\ last' = [NoRequest EXCEPT !.op = "change_password",
                                         !.username = session[s].username,
                                         !.current_password = current_password,
                                         !.password = new_password, !.outcome = "changed"]
       ELSE /\ users' = users
            /\ last' = [NoRequest EXCEPT !.op = "change_password",
                                         !.username = session[s].username,
                                         !.current_password = current_password,
                                         !.password = new_password, !.outcome = "error"]
    /\ UNCHANGED <<sqlite_sequence, expenses, session, now, pc, pending, row, overall, metrics>>

\* Login page: the Login button
LoginPage(s, username, password) ==
    /\ ~session[s].logged_in
    /\ pc[s] = "idle"
    /\ IF ~(Truthy(username) /\ Truthy(password))
       THEN /\ session' = session
            /\ last' = [NoRequest EXCEPT !.op = "login", !.by = username,
                                         !.password = password, !.outcome = "warning"]
       ELSE IF authenticate_user(users, username, password) # {}
       THEN /\ session' = [session EXCEPT
                              ![s] = LoggedInAs(CHOOSE u \in authenticate_user(users, username, password) : TRUE)]
            /\ last' = [NoRequest EXCEPT !.op = "login", !.by = username,
                                         !.password = password, !.outcome = "welcome"]
       ELSE /\ session' = session
            /\ last' = [NoRequest EXCEPT !.op = "login", !.by = username,
                                         !.password = password, !.outcome = "error"]
    /\ UNCHANGED <<users, sqlite_sequence, expenses, now, pc, pending, row, overall, metrics>>

\* The Logout button at the top of every page
LogoutButton(s) ==
    /\ session[s].logged_in
    /\ pc[s] = "idle"
    /\ session' = [session EXCEPT ![s] = LoggedOut]
    /\ last' = [NoRequest EXCEPT !.op = "logout", !.by = session[s].username, !.outcome = "logged_out"]
    /\ UNCHANGED <<users, sqlite_sequence, expenses, now, pc, pending, row, overall, metrics>>

\* The Save Bill button under a row of the My Expenses page (the user's own
\* expenses) or of the View All Expenses page, a file chosen in the uploader
SaveBillPage(s, page, id, bill_document, bill_filename, bill_filetype) ==
    /\ session[s].logged_in
    /\ page \in {"My Expenses", "View All Expenses"}
    /\ CanOpen(session[s].user_role, page)
    /\ id \in Ids(IF page = "My Expenses"
                   THEN get_expenses_by_user(expenses, session[s].full_name)
                   ELSE get_all_expenses(expenses))
    /\ expenses' = update_expense_bill(expenses, id, bill_document, bill_filename, bill_filetype)
    /\ last' = [NoRequest EXCEPT !.op = "bill", !.by = session[s].full_name, !.id = id,
                                 !.outcome = "uploaded"]
    /\ UNCHANGED <<users, sqlite_sequence, session, now, pc, pending, row, overall, metrics>>

\* The Dashboard has not run, or had no expense to show
NoMetrics ==
    [selected_brand |-> NULL, selected_status |-> NULL, filtered |-> {},
     total_expenses |-> 0, total_transactions |-> 0, paid |-> 0, pending |-> 0,
     brand_summary |-> <<>>]

\* The choices of the status filter of the Dashboard and View All Expenses pages
status_options ==
    <<"All", "Stage 1 Pending", "Stage 2 Pending", "Payment Pending", "Paid", "Rejected">>

\* A status filter that takes Paid for every record stage 2 has approved
StatusFilter_PaidOrPayable(selected_status, r) ==
    CASE selected_status = "All" -> TRUE
      [] selected_status = "Stage 1 Pending" -> r.stage1_status = "Pending"
      [] selected_status = "Stage 2 Pending" ->
            r.stage1_status = "Approved" /\ r.stage2_status = "Pending"
      [] selected_status = "Payment Pending" ->
            /\ r.stage1_status = "Approved" /\ r.stage2_status = "Approved"
            /\ r.stage3_status = "Pending"
      [] selected_status = "Paid" -> r.stage2_status = "Approved"
      [] selected_status = "Rejected" ->
            \/ r.stage1_status = "Rejected" \/ r.stage2_status = "Rejected"
            \/ r.stage3_status = "Rejected"

\* The row test the status filter applies for each of its choices
StatusFilter(selected_status, r) ==
    CASE selected_status = "All" -> TRUE
      [] selected_status = "Stage 1 Pending" -> r.stage1_status = "Pending"
      [] selected_status = "Stage 2 Pending" ->
            r.stage1_status = "Approved" /\ r.stage2_status = "Pending"
      [] selected_status = "Payment Pending" ->
            /\ r.stage1_status = "Approved" /\ r.stage2_status = "Approved"
            /\ r.stage3_status = "Pending"
      [] selected_status = "Paid" -> r.stage3_status = "Paid"
      [] selected_status = "Rejected" ->
            \/ r.stage1_status = "Rejected" \/ r.stage2_status = "Rejected"
            \/ r.stage3_status = "Rejected"

\* The brand and status filters of the Dashboard applied to the data frame,
\* the category, subcategory and date filters left at All / All Time
ApplyFilters(df, selected_brand, selected_status) ==
    LET BrandTest(r) == selected_brand = "All" \/ r.brand = selected_brand
        StatusTest(r) == StatusFilter(selected_status, r)
    IN  SelectSeq(SelectSeq(df, BrandTest), StatusTest)

\* df['amount'].sum()
RECURSIVE SumAmount(_)
SumAmount(df) ==
    IF df = <<>> THEN 0 ELSE df[1].amount + SumAmount(Tail(df))

\* len(df[df['stage3_status'] == status])
CountStage3(df, status) ==
    LET Test(r) == r.stage3_status = status IN Len(SelectSeq(df, Test))

\* The order in which groupby('brand') lists the brands
SortedBrands ==
    <<"BlinkR", "Duniya Finance", "FastPaise", "FundoBaBa", "Jhatpat", "Minutes Loan",
      "Paisa Pop", "Paisa on Salary", "Qua Loans", "Rupee Hype", "Salary 4 Sure",
      "Salary 4 You", "Salary Adda", "Salary Setu", "SnapPaisa", "Squid Loan", "Tejas",
      "Zepto">>

BrandRank(b) == CHOOSE i \in 1..Len(SortedBrands) : SortedBrands[i] = b

\* df.groupby('brand')['amount'].sum(): one total for each brand of df
groupby_brand_sum(df) ==
    LET OfBrand(b) == LET Test(r) == r.brand = b IN SelectSeq(df, Test)
    IN  [b \in {df[i].brand : i \in 1..Len(df)} |-> SumAmount(OfBrand(b))]

\* summary.nlargest(n, 'amount'): the n rows of the largest amounts, largest
\* first, rows of equal amount in the order of the summary
nlargest(n, summary) ==
    LET Before(c, b) == \/ summary[c] > summary[b]
                        \/ summary[c] = summary[b] /\ BrandRank(c) < BrandRank(b)
        Position(b) == 1 + Cardinality({c \in DOMAIN summary : Before(c, b)})
        Kept == IF Cardinality(DOMAIN summary) < n THEN Cardinality(DOMAIN summary) ELSE n
    IN  [k \in 1..Kept |->
            LET b == CHOOSE c \in DOMAIN summary : Position(c) = k
            IN  [brand |-> b, amount |-> summary[b]]]

\* One run of the Dashboard page with the brand and status filters as chosen:
\* the four metrics and the brand chart
DashboardPage(s, selected_brand, selected_status) ==
    /\ session[s].logged_in
    /\ CanOpen(session[s].user_role, "Dashboard")
    /\ LET df == get_all_expenses(expenses)
           filtered_df == ApplyFilters(df, selected_brand, selected_status)
       IN  /\ selected_brand \in {"All"} \cup {df[i].brand : i \in 1..Len(df)}
           /\ \E k \in 1..Len(status_options) : status_options[k] = selected_status
           /\ metrics' =
                 IF df = <<>>
                 THEN NoMetrics
                 ELSE [selected_brand |-> selected_brand,
                       selected_status |-> selected_status,
                       filtered |-> Ids(filtered_df),
                       total_expenses |-> SumAmount(filtered_df),
                       total_transactions |-> Len(filtered_df),
                       paid |-> CountStage3(filtered_df, "Paid"),
                       pending |-> CountStage3(filtered_df, "Pending"),
                       brand_summary |-> IF filtered_df = <<>> THEN <<>>
                                         ELSE nlargest(10, groupby_brand_sum(filtered_df))]
    /\ UNCHANGED <<users, sqlite_sequence, expenses, session, now, pc, pending, last, row, overall>>

\* Time passes
Tick ==
    /\ now < MaxClock
    /\ now' = now + 1
    /\ UNCHANGED <<users, sqlite_sequence, expenses, session, pc, pending, last, row, overall, metrics>>

----------------------------------------------------------------------------
(* Spec: the approval workflow, every script run one step, all within one reading *)
(* of the clock                                                                   *)

NoRow == [stage1_status |-> "Pending", stage2_status |-> "Pending",
          stage3_status |-> "Pending", stage1_remarks |-> NULL]

Init ==
    /\ users = init_db_users({}) \cup StaffRows
    /\ sqlite_sequence = 5
    /\ expenses = <<>>
    /\ session = StaffSessions
    /\ now = 1
    /\ pc = [s \in Sessions |-> "idle"]
    /\ pending = [s \in Sessions |-> <<>>]
    /\ last = NoRequest
    /\ row = NoRow
    /\ overall = <<>>
    /\ metrics = NoMetrics

\* The values typed or selected in the forms
Amounts == {0, 150000}
ExpenseIds == 1..MaxExpenses
\* <<button, remarks>> of the stage 1 and stage 2 pages
Decisions == {<<"Approve", "">>, <<"Reject", "">>, <<"Reject", "duplicate">>}
\* <<button, transaction_ref, remarks>> of the stage 3 page
Payments == {<<"Paid", "TXN123", "">>, <<"Paid", "", "">>,
             <<"Reject", "", "">>, <<"Reject", "", "duplicate">>}

Submitters == {s \in Sessions : session[s].user_role = "hr"}

AddExpenseStep ==
    \E s \in Submitters, amount \in Amounts, assigned_to \in get_brand_heads(users) \cup {NULL} :
        \E added_by \in {"", session[s].full_name} :
            AddExpensePage(s, 1, "Tejas", "Marketing", "Google", amount, "d",
                           added_by, assigned_to, MaxExpenses)

Stage1Step ==
    \E s \in Sessions, id \in ExpenseIds, d \in Decisions :
        Stage1Page(s, id, d[1], d[2])

Stage2Step ==
    \E s \in Sessions, id \in ExpenseIds, d \in Decisions :
        Stage2Page(s, id, d[1], d[2])

Stage3Step ==
    \E s \in Sessions, id \in ExpenseIds, d \in Payments :
        Stage3Page(s, id, d[1], "UPI", d[2], d[3])

Next ==
    \/ AddExpenseStep
    \/ Stage1Step
    \/ Stage2Step
    \/ Stage3Step

Spec == Init /\ [][Next]_vars

----------------------------------------------------------------------------
(* Properties of the workflow (Spec) *)

Rows == {expenses[i] : i \in 1..Len(expenses)}

StageOps == {"stage1", "stage2", "stage3"}

\* The stage columns of row e, by stage number
StageStatus(e, n) ==
    CASE n = 1 -> e.stage1_status [] n = 2 -> e.stage2_status [] n = 3 -> e.stage3_status

StageFields(e, n) ==
    CASE n = 1 -> <<e.stage1_status, e.stage1_approved_by, e.stage1_approved_date,
                    e.stage1_remarks>>
      [] n = 2 -> <<e.stage2_status, e.stage2_approved_by, e.stage2_approved_date,
                    e.stage2_remarks>>
      [] n = 3 -> <<e.stage3_status, e.stage3_paid_by, e.stage3_paid_date,
                    e.stage3_remarks, e.stage3_payment_mode, e.stage3_transaction_ref>>

StageRemarks(e, n) ==
    CASE n = 1 -> e.stage1_remarks [] n = 2 -> e.stage2_remarks [] n = 3 -> e.stage3_remarks

StageOf(op) == CASE op = "stage1" -> 1 [] op = "stage2" -> 2 [] op = "stage3" -> 3

\* The columns of a stage nobody has decided
UndecidedFields(n) ==
    IF n = 3 THEN <<"Pending", NULL, NullTime, NULL, NULL, NULL>>
             ELSE <<"Pending", NULL, NullTime, NULL>>

\* The eligibility rule: stage n is Pending and the stage before it is Approved; at
\* stage 1 a brand head acts on the records assigned to them only
EligibleRow(e, n, name) ==
    /\ StageStatus(e, n) = "Pending"
    /\ n > 1 => StageStatus(e, n - 1) = "Approved"
    /\ (n = 1 /\ \E u \in users : u.full_name = name /\ u.role = "brand_heads")
          => e.stage1_assigned_to = name

\* C1: sequential gating.  With every page action one atomic step, each record has
\* stage 2 decided only if stage 1 is Approved, and stage 3 decided only if stage 1
\* and stage 2 are both Approved.
C1_SequentialGating ==
    \A e \in Rows :
        /\ e.stage2_status # "Pending" => e.stage1_status = "Approved"
        /\ e.stage3_status # "Pending" =>
              e.stage1_status = "Approved" /\ e.stage2_status = "Approved"

\* A record went through all three stages and a second one was rejected at stage 2.
C1_Witness ==
    /\ \E e \in Rows : e.stage3_status = "Paid"
    /\ \E e \in Rows : e.stage2_status = "Rejected"

\* C5, on the state: a Reject with empty remarks reports the warning and the stage
\* it was asked for is still undecided; a Reject with remarks and an Approve or Paid
\* (with a transaction reference) on a rendered row are written, whatever the
\* remarks; every Rejected stage holds non-empty remarks.
C5_RemarksState ==
    /\ (last.op \in StageOps /\ last.button = "Reject" /\ ~Truthy(last.remarks)) =>
          /\ last.outcome = "warning"
          /\ StageFields(expenses[last.id], StageOf(last.op)) = UndecidedFields(StageOf(last.op))
    /\ (last.op \in StageOps /\ last.button = "Reject" /\ Truthy(last.remarks)) =>
          /\ last.outcome = "written"
          /\ StageStatus(expenses[last.id], StageOf(last.op)) = "Rejected"
          /\ StageRemarks(expenses[last.id], StageOf(last.op)) = last.remarks
    /\ (last.op \in StageOps /\ last.button = "Approve") =>
          /\ last.outcome = "written"
          /\ StageStatus(expenses[last.id], StageOf(last.op)) = "Approved"
    /\ (last.op = "stage3" /\ last.button = "Paid" /\ Truthy(last.transaction_ref)) =>
          /\ last.outcome = "written"
          /\ expenses[last.id].stage3_status = "Paid"
    /\ \A e \in Rows, n \in 1..3 :
          StageStatus(e, n) = "Rejected" => Truthy(StageRemarks(e, n))

\* C5, on the step: a handler that reports a warning or finds no button to run
\* leaves the expenses table as it was, and a button is missing only for a record
\* that is not eligible for the session's user.
C5_RemarksStep ==
    /\ last'.outcome \in {"warning", "not_rendered"} => expenses' = expenses
    /\ (last'.op \in StageOps /\ last'.outcome = "not_rendered" /\ last'.id <= Len(expenses)) =>
          ~EligibleRow(expenses[last'.id], StageOf(last'.op), last'.by)

\* C5: at every stage a Reject with empty remarks fails and leaves the record
\* unchanged, a Reject with non-empty remarks on an eligible record succeeds, every
\* Rejected stage has non-empty remarks, and Approve and Paid succeed with empty
\* remarks.
C5_RejectNeedsRemarks == []C5_RemarksState /\ [][C5_RemarksStep]_vars

\* One record was rejected at stage 1 with remarks, and a Reject without remarks has
\* just been refused at stage 3 of another record whose earlier stages were approved
\* with empty remarks.
C5_Witness ==
    /\ \E e \in Rows : e.stage1_status = "Rejected" /\ e.stage1_remarks = "duplicate"
    /\ last.op = "stage3" /\ last.button = "Reject" /\ last.remarks = ""
    /\ last.outcome = "warning"
    /\ expenses[last.id].stage2_status = "Approved"
    /\ expenses[last.id].stage2_remarks = ""

\* C6, on the state: a Mark as Paid without a transaction reference reports the
\* warning and stage 3 of the record is still undecided; every Paid record holds a
\* payment mode of PAYMENT_MODES and a non-empty transaction reference.
C6_PaymentState ==
    /\ (last.op = "stage3" /\ last.button = "Paid" /\ ~Truthy(last.transaction_ref)) =>
          /\ last.outcome = "warning"
          /\ StageFields(expenses[last.id], 3) = UndecidedFields(3)
    /\ \A e \in Rows :
          e.stage3_status = "Paid" =>
              /\ e.stage3_payment_mode \in PAYMENT_MODES
              /\ Truthy(e.stage3_transaction_ref)

\* C6, on the step: the refused Mark as Paid changes no record.
C6_PaymentStep ==
    (last'.op = "stage3" /\ last'.button = "Paid" /\ ~Truthy(last'.transaction_ref))
        => expenses' = expenses

\* C6: a stage-3 Paid decision with an empty payment mode or transaction reference
\* fails and leaves the record unchanged; every Paid record has both.
C6_PaidNeedsPaymentFields == []C6_PaymentState /\ [][C6_PaymentStep]_vars

\* One record is Paid, and a Mark as Paid without a reference has just been refused
\* for another record that waits at stage 3.
C6_Witness ==
    /\ \E e \in Rows : e.stage3_status = "Paid" /\ e.stage3_transaction_ref = "TXN123"
    /\ last.op = "stage3" /\ last.button = "Paid" /\ last.transaction_ref = ""
    /\ last.outcome = "warning"
    /\ expenses[last.id].stage3_status = "Pending"

\* C8, on the state: the ids of the records are distinct, and the record a
\* successful creation has just added is undecided at every stage.
C8_CreationState ==
    /\ \A i, j \in 1..Len(expenses) : expenses[i].id = expenses[j].id => i = j
    /\ last.outcome = "added" =>
          /\ Len(expenses) > 0
          /\ \A n \in 1..3 : StageFields(expenses[Len(expenses)], n) = UndecidedFields(n)
          /\ get_overall_status(expenses[Len(expenses)]) = "Stage 1 Approval Pending"

\* C8, on the step: the table grows by one record at a time and only when the form
\* reports success; the records it held are untouched and the new id is fresh.
C8_CreationStep ==
    /\ Len(expenses') # Len(expenses) =>
          /\ Len(expenses') = Len(expenses) + 1
          /\ last'.outcome = "added"
          /\ SubSeq(expenses', 1, Len(expenses)) = expenses
          /\ \A e \in Rows : e.id # expenses'[Len(expenses')].id
    /\ (last'.outcome = "added" /\ last' # last) => Len(expenses') = Len(expenses) + 1

\* C8: every successful creation adds exactly one record with a fresh unique id,
\* all three stages Pending, no actor, timestamp, remarks or payment field set, and
\* overall status Stage 1 Pending.
C8_CreationAddsPendingRecord == []C8_CreationState /\ [][C8_CreationStep]_vars

\* A second record has just been created while the first one is already decided at
\* stage 1.
C8_Witness ==
    /\ Len(expenses) = 2
    /\ last.outcome = "added"
    /\ expenses[1].stage1_status # "Pending"
    /\ expenses[2].stage1_status = "Pending"

\* The actor column of stage n of row e
StageActor(e, n) ==
    CASE n = 1 -> e.stage1_approved_by [] n = 2 -> e.stage2_approved_by
      [] n = 3 -> e.stage3_paid_by

\* The roles that may decide stage n
StageRoles(n) ==
    CASE n = 1 -> {"brand_heads", "admin"}
      [] n = 2 -> {"stage2_approver", "admin"}
      [] n = 3 -> {"accounts_team", "admin"}

\* The roles of the logged-in sessions whose user goes by the full name name
RolesNamed(name) ==
    {session[s].user_role :
        s \in {t \in Sessions : session[t].logged_in /\ session[t].full_name = name}}

\* C11: role eligibility.  A stage-1 decision is written only by a session with role
\* brand_heads or admin, a stage-2 decision only by stage2_approver or admin, a
\* stage-3 decision only by accounts_team or admin; no handler of a stage page ever
\* runs for a session of another role, and a session with role hr changes no stage
\* status.
C11_RoleEligibility ==
    /\ \A e \in Rows, n \in 1..3 :
          StageStatus(e, n) # "Pending" =>
              /\ RolesNamed(StageActor(e, n)) # {}
              /\ RolesNamed(StageActor(e, n)) \subseteq StageRoles(n)
    /\ last.op \in StageOps =>
          /\ RolesNamed(last.by) # {}
          /\ RolesNamed(last.by) \subseteq StageRoles(StageOf(last.op))
    /\ \A e \in Rows, n \in 1..3 : "hr" \notin RolesNamed(StageActor(e, n))

\* A record created by the HR user was approved by the administrator, approved by
\* the stage-2 approver and paid by the accounts team; the brand head rejected
\* another one.
C11_Witness ==
    /\ \E e \in Rows :
          /\ e.added_by = "Harsh"
          /\ e.stage1_approved_by = "System Administrator"
          /\ e.stage2_approved_by = "Shruti"
          /\ e.stage3_status = "Paid" /\ e.stage3_paid_by = "Hansi"
    /\ \E e \in Rows : e.stage1_status = "Rejected" /\ e.stage1_approved_by = "Swati"

\* The label of a record that waits for the decision of stage n
WaitingLabel(n) ==
    CASE n = 1 -> "Stage 1 Approval Pending"
      [] n = 2 -> "Stage 2 Approval Pending"
      [] n = 3 -> "Payment Pending"

\* C13: the happy path.  A stage-1 Approve makes the overall status Stage 2
\* Pending, a following stage-2 Approve makes it Payment Pending, a following
\* stage-3 Paid with payment mode and transaction reference makes it Paid; the
\* decision of stage n is offered for a record (the record is in the stage's
\* queue) exactly when the record waits for stage n, that is when the decision
\* before it has been written and its own has not.
C13_HappyPath ==
    /\ \A e \in Rows, n \in 1..3 :
          e.id \in Ids(get_expenses_for_approval(expenses, n, NULL))
              <=> get_overall_status(e) = WaitingLabel(n)
    /\ \A e \in Rows :
          /\ get_overall_status(e) = WaitingLabel(2) <=>
                (e.stage1_status = "Approved" /\ e.stage2_status = "Pending")
          /\ get_overall_status(e) = WaitingLabel(3) <=>
                (e.stage2_status = "Approved" /\ e.stage3_status = "Pending")
    /\ (last.op \in {"stage1", "stage2"} /\ last.button = "Approve" /\ last.outcome = "written")
          => get_overall_status(expenses[last.id]) = WaitingLabel(StageOf(last.op) + 1)
    /\ (last.op = "stage3" /\ last.button = "Paid" /\ last.outcome = "written") =>
          /\ get_overall_status(expenses[last.id]) = "Paid"
          /\ expenses[last.id].stage3_payment_mode = last.payment_mode
          /\ expenses[last.id].stage3_transaction_ref = last.transaction_ref

\* Scenario A has just ended: the record approved by Swati and by Shruti has been
\* marked as paid by Hansi, mode UPI, reference TXN123.
C13_Witness ==
    /\ last.op = "stage3" /\ last.button = "Paid" /\ last.outcome = "written"
    /\ last.by = "Hansi" /\ last.payment_mode = "UPI" /\ last.transaction_ref = "TXN123"
    /\ expenses[last.id].stage1_approved_by = "Swati"
    /\ expenses[last.id].stage2_approved_by = "Shruti"
    /\ get_overall_status(expenses[last.id]) = "Paid"

----------------------------------------------------------------------------
(* SpecStatus: get_overall_status applied to every combination of stage statuses *)

StatusValues == {"Pending", "Approved", "Rejected", "Paid"}

StatusRows ==
    [stage1_status : StatusValues, stage2_status : StatusValues,
     stage3_status : StatusValues, stage1_remarks : {NULL, "duplicate"}]

InitStatus ==
    /\ users = init_db_users({})
    /\ sqlite_sequence = 1
    /\ expenses = <<>>
    /\ session = [s \in Sessions |-> LoggedOut]
    /\ now = 1
    /\ pc = [s \in Sessions |-> "idle"]
    /\ pending = [s \in Sessions |-> <<>>]
    /\ last = NoRequest
    /\ row \in StatusRows
    /\ overall = <<>>
    /\ metrics = NoMetrics

\* df.apply(get_overall_status, axis=1), once on each of two page loads
EvaluateStatus ==
    /\ Len(overall) < 2
    /\ overall' = Append(overall, get_overall_status(row))
    /\ UNCHANGED <<users, sqlite_sequence, expenses, session, now, pc, pending, last, row,
                   metrics>>

NextStatus == EvaluateStatus

SpecStatus == InitStatus /\ [][NextStatus]_vars

\* The label the precedence list gives to the statuses (s1, s2, s3)
PrecedenceLabel(s1, s2, s3) ==
    CASE s3 = "Paid" -> "Paid"
      [] s3 # "Paid" /\ "Rejected" \in {s1, s2, s3} -> "Rejected"
      [] s3 # "Paid" /\ "Rejected" \notin {s1, s2, s3} /\ s2 = "Approved" -> "Payment Pending"
      [] s3 # "Paid" /\ "Rejected" \notin {s1, s2, s3} /\ s2 # "Approved" /\ s1 = "Approved"
            -> "Stage 2 Approval Pending"
      [] OTHER -> "Stage 1 Approval Pending"

\* C7: for stage 1 and 2 statuses in Pending/Approved/Rejected and a stage 3 status
\* in Pending/Paid/Rejected, get_overall_status returns Paid if stage 3 is Paid, else
\* Rejected if any stage is Rejected, else Payment Pending if stage 2 is Approved,
\* else Stage 2 Pending if stage 1 is Approved, else Stage 1 Pending; the label
\* depends on the three statuses only and is the same on every evaluation.
C7_OverallStatusPrecedence ==
    (/\ row.stage1_status \in {"Pending", "Approved", "Rejected"}
     /\ row.stage2_status \in {"Pending", "Approved", "Rejected"}
     /\ row.stage3_status \in {"Pending", "Paid", "Rejected"})
    => \A k \in 1..Len(overall) :
          overall[k] = PrecedenceLabel(row.stage1_status, row.stage2_status,
                                       row.stage3_status)

\* A row Rejected at stage 1 and yet Paid at stage 3, carrying remarks, has been
\* labelled twice: the payment wins.
C7_Witness ==
    /\ row.stage1_status = "Rejected"
    /\ row.stage2_status = "Pending"
    /\ row.stage3_status = "Paid"
    /\ row.stage1_remarks = "duplicate"
    /\ overall = <<"Paid", "Paid">>

----------------------------------------------------------------------------
(* SpecCreate: the Add Expense form while an administrator activates and           *)
(* deactivates accounts                                                            *)

FormBrands == {"Tejas", "Zepto"}
\* <<category, subcategory>>
FormCategories == {<<"Marketing", "Google">>, <<"Rental", NULL>>}
FormAmounts == {0, 50000, 150000}
FormSubmitters == {s \in Sessions : session[s].user_role \in {"hr", "admin"}}

CreateFormStep ==
    \E s \in FormSubmitters, brand \in FormBrands, c \in FormCategories,
       amount \in FormAmounts, assigned_to \in get_brand_heads(users) \cup {NULL} :
        \E added_by \in {"", session[s].full_name} :
            AddExpensePage(s, 1, brand, c[1], c[2], amount, "d", added_by,
                           assigned_to, MaxExpenses)

UserStatusStep ==
    \E s \in Sessions, u \in {v \in users : v.role \in {"brand_heads", "hr"}} :
        UserStatusPage(s, u.id)

NextCreate ==
    \/ CreateFormStep
    \/ UserStatusStep

SpecCreate == Init /\ [][NextCreate]_vars

\* C9, on the state: a submission with amount 0 or without a submitter reports the
\* error; every stored record has a positive amount, a brand of BRANDS, a category
\* of CATEGORIES and a submitter.
C9_ValidationState ==
    /\ (last.op = "add" /\ (last.amount <= 0 \/ ~Truthy(last.added_by))) =>
          last.outcome = "error"
    /\ \A e \in Rows :
          /\ e.amount > 0
          /\ e.brand \in BRANDS
          /\ e.category \in DOMAIN CATEGORIES
          /\ Truthy(e.added_by)

\* C9, on the step: a submission that reports the error adds no record.
C9_ValidationStep ==
    (last'.op = "add" /\ last'.outcome = "error") => expenses' = expenses

\* C9: creating an expense with amount <= 0, a brand or category outside the lists
\* or no submitter fails and adds no record; every stored record has amount > 0, a
\* brand in BRANDS, a category in CATEGORIES and a non-empty submitter.
C9_CreationValidated == []C9_ValidationState /\ [][C9_ValidationStep]_vars

\* A submission with amount 0 by a named submitter to an available brand head has
\* just been refused, after another one was stored.
C9_Witness ==
    /\ last.op = "add" /\ last.amount = 0 /\ Truthy(last.added_by)
    /\ Truthy(last.assigned_to)
    /\ last.outcome = "error"
    /\ Len(expenses) = 1

\* C10 as claimed: a submission with a positive amount and a submitter but no
\* assignee is stored.
C10_AssigneeOptional ==
    (last.op = "add" /\ last.amount > 0 /\ Truthy(last.added_by) /\ ~Truthy(last.assigned_to))
        => last.outcome = "added"

\* C10, on the state: the form has no assignee exactly when no active brand head
\* exists, and then it reports the error; with an assignee, a positive amount and a
\* submitter the record is stored with every stage Pending; every stored record has
\* an assignee.
C10_AssigneeState ==
    /\ (last.op = "add" /\ ~Truthy(last.assigned_to)) => last.outcome = "error"
    /\ (last.op = "add" /\ last.amount > 0 /\ Truthy(last.added_by) /\ Truthy(last.assigned_to)) =>
          /\ last.outcome = "added"
          /\ \A n \in 1..3 : StageStatus(expenses[Len(expenses)], n) = "Pending"
          /\ expenses[Len(expenses)].stage1_assigned_to = last.assigned_to
    /\ \A e \in Rows : Truthy(e.stage1_assigned_to)

\* C10, on the step: the assignee offered is an active brand head, or none when
\* there is no active brand head, and a submission without assignee adds no record.
C10_AssigneeStep ==
    (last'.op = "add" /\ last' # last) =>
        /\ Truthy(last'.assigned_to) <=> get_brand_heads(users) # {}
        /\ Truthy(last'.assigned_to) => last'.assigned_to \in get_brand_heads(users)
        /\ ~Truthy(last'.assigned_to) => expenses' = expenses

\* C10, amended: the assignee is required by the form.  A submission without
\* assignee (possible only when no active brand head exists) fails and stores
\* nothing; with an active brand head chosen, a positive amount and a submitter it
\* stores a record with all stages Pending.
C10_AssigneeRequired == []C10_AssigneeState /\ [][C10_AssigneeStep]_vars

\* The only brand head is deactivated and an otherwise valid submission has just
\* been refused for want of an assignee.
C10_Witness ==
    /\ get_brand_heads(users) = {}
    /\ last.op = "add" /\ last.amount > 0 /\ Truthy(last.added_by)
    /\ ~Truthy(last.assigned_to)
    /\ last.outcome = "error"

----------------------------------------------------------------------------
(* SpecRace: the script runs of the sessions interleave.  A run of an approval    *)
(* page first reads the stage's queue (one connection, one SELECT) and later, in  *)
(* the handler of the clicked button, writes (another connection, one UPDATE).    *)

\* The run of session s starts on the Approval Stage 1 page and reads the queue
OpenStage1(s) ==
    /\ session[s].logged_in
    /\ CanOpen(session[s].user_role, "Approval Stage 1")
    /\ pc[s] = "idle"
    /\ pc' = [pc EXCEPT ![s] = "stage1"]
    /\ pending' = [pending EXCEPT ![s] = Stage1Queue(s)]
    /\ UNCHANGED <<users, sqlite_sequence, expenses, session, now, last, row, overall, metrics>>

OpenStage2(s) ==
    /\ session[s].logged_in
    /\ CanOpen(session[s].user_role, "Approval Stage 2")
    /\ pc[s] = "idle"
    /\ pc' = [pc EXCEPT ![s] = "stage2"]
    /\ pending' = [pending EXCEPT ![s] = get_expenses_for_approval(expenses, 2, NULL)]
    /\ UNCHANGED <<users, sqlite_sequence, expenses, session, now, last, row, overall, metrics>>

OpenStage3(s) ==
    /\ session[s].logged_in
    /\ CanOpen(session[s].user_role, "Approval Stage 3")
    /\ pc[s] = "idle"
    /\ pc' = [pc EXCEPT ![s] = "stage3"]
    /\ pending' = [pending EXCEPT ![s] = get_expenses_for_approval(expenses, 3, NULL)]
    /\ UNCHANGED <<users, sqlite_sequence, expenses, session, now, last, row, overall, metrics>>

\* The run reaches the buttons of the rows it has read; the clicked one's handler
\* runs and the run ends
ClickStage1(s, id, button, remarks) ==
    /\ pc[s] = "stage1"
    /\ button \in {"Approve", "Reject"}
    /\ Stage1Buttons(s, pending[s], id, button, remarks)
    /\ pc' = [pc EXCEPT ![s] = "idle"]
    /\ pending' = [pending EXCEPT ![s] = <<>>]
    /\ UNCHANGED <<users, sqlite_sequence, session, now, row, overall, metrics>>

ClickStage2(s, id, button, remarks) ==
    /\ pc[s] = "stage2"
    /\ button \in {"Approve", "Reject"}
    /\ Stage2Buttons(s, pending[s], id, button, remarks)
    /\ pc' = [pc EXCEPT ![s] = "idle"]
    /\ pending' = [pending EXCEPT ![s] = <<>>]
    /\ UNCHANGED <<users, sqlite_sequence, session, now, row, overall, metrics>>

ClickStage3(s, id, button, payment_mode, transaction_ref, remarks) ==
    /\ pc[s] = "stage3"
    /\ button \in {"Paid", "Reject"}
    /\ payment_mode \in PAYMENT_MODES
    /\ Stage3Buttons(s, pending[s], id, button, payment_mode, transaction_ref, remarks)
    /\ pc' = [pc EXCEPT ![s] = "idle"]
    /\ pending' = [pending EXCEPT ![s] = <<>>]
    /\ UNCHANGED <<users, sqlite_sequence, session, now, row, overall, metrics>>

RaceIds == 1..MaxRaceExpenses
RaceDecisions == {<<"Approve", "">>, <<"Reject", "duplicate">>}
RacePayments == {<<"Paid", "TXN123", "">>, <<"Reject", "", "duplicate">>}

RaceAddExpenseStep ==
    \E s \in Submitters, assigned_to \in get_brand_heads(users) :
        AddExpensePage(s, 1, "Tejas", "Marketing", "Google", 150000, "d",
                       session[s].full_name, assigned_to, MaxRaceExpenses)

OpenStep ==
    \E s \in Sessions : OpenStage1(s) \/ OpenStage2(s) \/ OpenStage3(s)

ClickStage1Step ==
    \E s \in Sessions, id \in RaceIds, d \in RaceDecisions : ClickStage1(s, id, d[1], d[2])

ClickStage2Step ==
    \E s \in Sessions, id \in RaceIds, d \in RaceDecisions : ClickStage2(s, id, d[1], d[2])

ClickStage3Step ==
    \E s \in Sessions, id \in RaceIds, d \in RacePayments :
        ClickStage3(s, id, d[1], "UPI", d[2], d[3])

NextRace ==
    \/ Tick
    \/ RaceAddExpenseStep
    \/ OpenStep
    \/ ClickStage1Step
    \/ ClickStage2Step
    \/ ClickStage3Step

SpecRace == Init /\ [][NextRace]_vars

\* A button handler of some session has run in this step
HandlerRan == \E s \in Sessions : pc[s] # "idle" /\ pc'[s] = "idle"

\* C2: stage immutability.  Once stage n of a record is no longer Pending, no later
\* operation of any session, a session that read the queue before the decision
\* included, changes that stage's status, actor, timestamp or remarks.
C2_StageImmutable ==
    [][\A i \in 1..Len(expenses), n \in 1..3 :
          StageStatus(expenses[i], n) # "Pending" =>
              StageFields(expenses'[i], n) = StageFields(expenses[i], n)]_vars

\* C3: of two sessions that decide the same stage of the same record concurrently,
\* exactly one succeeds; the decision of the other is refused and writes nothing.
\* A handler therefore reports success only for a stage that is Pending when it
\* writes.
C3_OneDecisionWins ==
    [][(HandlerRan /\ last'.outcome = "written") =>
          StageStatus(expenses[last'.id], StageOf(last'.op)) = "Pending"]_vars

\* C4: a stage-2 decision on a record whose stage 1 is not Approved fails and
\* leaves the record unchanged, and a stage-3 decision fails unless stage 1 and
\* stage 2 are both Approved.
C4_DecisionNeedsEarlierApproval ==
    [][(HandlerRan /\ last'.outcome = "written") =>
          /\ last'.op = "stage2" => expenses[last'.id].stage1_status = "Approved"
          /\ last'.op = "stage3" =>
                /\ expenses[last'.id].stage1_status = "Approved"
                /\ expenses[last'.id].stage2_status = "Approved"]_vars
\* C14: the rejection path.  Once stage 1 of a record is Rejected (with remarks),
\* every later attempt to decide stage 2 or stage 3 of it fails: the columns of
\* stage 2 and stage 3 are the same after every step; likewise the columns of
\* stage 3 once stage 2 is Rejected.
C14_RejectionIsFinal ==
    [][\A i \in 1..Len(expenses) :
          /\ (expenses[i].stage1_status = "Rejected" /\ Truthy(expenses[i].stage1_remarks)) =>
                /\ StageFields(expenses'[i], 2) = StageFields(expenses[i], 2)
                /\ StageFields(expenses'[i], 3) = StageFields(expenses[i], 3)
          /\ (expenses[i].stage2_status = "Rejected" /\ Truthy(expenses[i].stage2_remarks)) =>
                StageFields(expenses'[i], 3) = StageFields(expenses[i], 3)]_vars

\* C15, on the state: the statuses stored are Pending, Approved or Rejected at
\* stages 1 and 2 and Pending, Paid or Rejected at stage 3.
C15_StatusDomain ==
    \A e \in Rows :
        /\ e.stage1_status \in {"Pending", "Approved", "Rejected"}
        /\ e.stage2_status \in {"Pending", "Approved", "Rejected"}
        /\ e.stage3_status \in {"Pending", "Paid", "Rejected"}

\* C15, on the step: a stage that is not Pending is not Pending after the step.
C15_NoReturnStep ==
    \A i \in 1..Len(expenses), n \in 1..3 :
        StageStatus(expenses[i], n) # "Pending" => StageStatus(expenses'[i], n) # "Pending"

\* C15: no operation sets a stage status back to Pending, and the only statuses
\* ever stored are Pending/Approved/Rejected for stages 1 and 2 and
\* Pending/Paid/Rejected for stage 3.
C15_NeverBackToPending == []C15_StatusDomain /\ [][C15_NoReturnStep]_vars

\* A record whose stage 1 was decided twice (Approved, then Rejected by a run that
\* had read the queue earlier) and whose stages 2 and 3 were decided as well.
C15_Witness ==
    \E e \in Rows :
        /\ e.stage1_status = "Rejected" /\ e.stage1_approved_by = "Swati"
        /\ e.stage2_status = "Approved"
        /\ e.stage3_status \in {"Paid", "Rejected"}

\* The status triple of a row
StatusTriple(e) == <<e.stage1_status, e.stage2_status, e.stage3_status>>

WorkflowTriples ==
    {<<"Pending", "Pending", "Pending">>, <<"Approved", "Pending", "Pending">>,
     <<"Rejected", "Pending", "Pending">>, <<"Approved", "Approved", "Pending">>,
     <<"Approved", "Rejected", "Pending">>, <<"Approved", "Approved", "Paid">>,
     <<"Approved", "Approved", "Rejected">>}

\* C16, on the state: every record's status triple is one of the seven.
C16_Triples == \A e \in Rows : StatusTriple(e) \in WorkflowTriples

\* C16, on the step: a triple changes by one stage leaving Pending, so none is
\* revisited, and an overall status of Paid or Rejected stays.
C16_TripleStep ==
    \A i \in 1..Len(expenses) :
        /\ StatusTriple(expenses'[i]) # StatusTriple(expenses[i]) =>
              \E n \in 1..3 :
                  /\ StageStatus(expenses[i], n) = "Pending"
                  /\ StageStatus(expenses'[i], n) # "Pending"
                  /\ \A m \in 1..3 \ {n} :
                        StageStatus(expenses'[i], m) = StageStatus(expenses[i], m)
        /\ get_overall_status(expenses[i]) \in {"Paid", "Rejected"} =>
              get_overall_status(expenses'[i]) = get_overall_status(expenses[i])

\* C16: the workflow is acyclic and monotonic.  The status triples reachable for a
\* record are the seven of WorkflowTriples, no triple is revisited after being
\* left, and an overall status of Paid or Rejected never changes again.
C16_AcyclicWorkflow == []C16_Triples /\ [][C16_TripleStep]_vars

----------------------------------------------------------------------------
(* SpecList: expenses are created on different days of the clock and with         *)
(* different expense dates, approved in any order, and listed: the run of a page  *)
(* reads its rows, renders them and ends.                                         *)

\* The run of session s starts on the View All Expenses page (or the Dashboard) and
\* reads get_all_expenses()
OpenViewAll(s) ==
    /\ session[s].logged_in
    /\ CanOpen(session[s].user_role, "View All Expenses")
    /\ pc[s] = "idle"
    /\ pc' = [pc EXCEPT ![s] = "view_all"]
    /\ pending' = [pending EXCEPT ![s] = get_all_expenses(expenses)]
    /\ UNCHANGED <<users, sqlite_sequence, expenses, session, now, last, row, overall, metrics>>

\* The run of session s starts on the My Expenses page and reads
\* get_expenses_by_user(full_name)
OpenMyExpenses(s) ==
    /\ session[s].logged_in
    /\ CanOpen(session[s].user_role, "My Expenses")
    /\ pc[s] = "idle"
    /\ pc' = [pc EXCEPT ![s] = "my_expenses"]
    /\ pending' = [pending EXCEPT ![s] = get_expenses_by_user(expenses, session[s].full_name)]
    /\ UNCHANGED <<users, sqlite_sequence, expenses, session, now, last, row, overall, metrics>>

\* The run of session s reaches the end of the script with no button clicked
EndRun(s) ==
    /\ pc[s] # "idle"
    /\ pc' = [pc EXCEPT ![s] = "idle"]
    /\ pending' = [pending EXCEPT ![s] = <<>>]
    /\ UNCHANGED <<users, sqlite_sequence, expenses, session, now, last, row, overall, metrics>>

\* The expense dates picked in the form: days before the clock's first reading
ExpenseDates == {-1, -2}

\* The sessions whose listings are followed
Viewers == {s \in Sessions : session[s].user_role \in {"admin", "hr"}}

ListAddExpenseStep ==
    \E s \in FormSubmitters, date \in ExpenseDates, assigned_to \in get_brand_heads(users) :
        AddExpensePage(s, date, "Tejas", "Marketing", "Google", 150000, "d",
                       session[s].full_name, assigned_to, MaxExpenses)

ListStage1Step ==
    \E s \in Viewers, id \in ExpenseIds : Stage1Page(s, id, "Approve", "")

ListStage2Step ==
    \E s \in Viewers, id \in ExpenseIds : Stage2Page(s, id, "Approve", "")

ListOpenQueueStep ==
    \E s \in Viewers : OpenStage1(s) \/ OpenStage2(s) \/ OpenStage3(s)

ListOpenStep ==
    \E s \in Viewers : OpenViewAll(s) \/ OpenMyExpenses(s)

ListEndStep == \E s \in Viewers : EndRun(s)

NextList ==
    \/ Tick
    \/ ListAddExpenseStep
    \/ ListStage1Step
    \/ ListStage2Step
    \/ ListOpenQueueStep
    \/ ListOpenStep
    \/ ListEndStep

SpecList == Init /\ [][NextList]_vars

\* rows lists a record created earlier before every record created later
OldestFirst(rows) ==
    \A i, j \in 1..Len(rows) :
        rows[i].created_at < rows[j].created_at => i < j

\* rows lists a record created later before every record created earlier
NewestFirst(rows) ==
    \A i, j \in 1..Len(rows) :
        rows[i].created_at > rows[j].created_at => i < j

\* rows lists a record with a later expense date before every record with an
\* earlier one
LatestDateFirst(rows) ==
    \A i, j \in 1..Len(rows) :
        rows[i].date > rows[j].date => i < j

\* C17: each stage's pending queue lists its records oldest first: of two records
\* in the queue a page has read, the one created earlier comes before the one
\* created later, in whatever order the earlier stages decided them.
C17_QueueOldestFirst ==
    \A s \in Sessions :
        pc[s] \in {"stage1", "stage2", "stage3"} => OldestFirst(pending[s])

\* The stage-2 queue holds two records created at different times, the older
\* first, of which the older is the one approved at stage 1 last.
C17_Witness ==
    \E s \in Sessions :
        /\ pc[s] = "stage2"
        /\ Len(pending[s]) = 2
        /\ pending[s][1].created_at < pending[s][2].created_at
        /\ last.op = "stage1" /\ last.outcome = "written"
        /\ last.id = pending[s][1].id

\* C18 as claimed: every listing that is not a queue has a record created later
\* before every record created earlier, whatever the expense dates are.
C18_ListingsNewestFirst ==
    \A s \in Sessions :
        pc[s] \in {"view_all", "my_expenses"} => NewestFirst(pending[s])

\* C18, amended: the list of all expenses is in descending order of the expense
\* date, whatever the creation times are; the list of a submitter's expenses
\* holds that submitter's records only and is in descending order of the
\* creation time, whatever the expense dates are.
C18_ListingOrders ==
    \A s \in Sessions :
        /\ pc[s] = "view_all" => LatestDateFirst(pending[s])
        /\ pc[s] = "my_expenses" =>
              /\ NewestFirst(pending[s])
              /\ \A i \in 1..Len(pending[s]) : pending[s][i].added_by = session[s].full_name

\* The HR user's list shows their two records, the younger first although its
\* expense date is the earlier one, while the administrator's list of all
\* expenses shows the same two records the other way round.
C18_Witness ==
    \E s, t \in Sessions :
        /\ pc[s] = "my_expenses" /\ Len(pending[s]) = 2
        /\ pending[s][1].created_at > pending[s][2].created_at
        /\ pending[s][1].date < pending[s][2].date
        /\ pc[t] = "view_all" /\ Len(pending[t]) = 2
        /\ pending[t][1].id = pending[s][2].id

----------------------------------------------------------------------------
(* SpecFrame: every operation that touches or reads the expenses table: creation, *)
(* the decisions of the three stages, bill uploads, account activation and the    *)
(* listings.  SpecClock: creation, decisions and bill uploads while the clock     *)
(* runs.                                                                          *)

\* <<bill_document, bill_filename, bill_filetype>> of the file in the uploader
BillFiles == {<<"%PDF", "bill.pdf", "application/pdf">>}

\* The sessions of the three approver roles
Approvers ==
    {s \in Sessions :
        session[s].user_role \in {"brand_heads", "stage2_approver", "accounts_team"}}

FrameAddExpenseStep ==
    \E s \in Submitters, assigned_to \in get_brand_heads(users) :
        AddExpensePage(s, 1, "Tejas", "Marketing", "Google", 150000, "d",
                       session[s].full_name, assigned_to, MaxExpenses)

FrameStage1Step ==
    \E s \in Approvers, id \in ExpenseIds, d \in RaceDecisions :
        Stage1Page(s, id, d[1], d[2])

FrameStage2Step ==
    \E s \in Approvers, id \in ExpenseIds, d \in RaceDecisions :
        Stage2Page(s, id, d[1], d[2])

FrameStage3Step ==
    \E s \in Approvers, id \in ExpenseIds, d \in RacePayments :
        Stage3Page(s, id, d[1], "UPI", d[2], d[3])

FrameSaveBillStep ==
    \E s \in Viewers, page \in {"My Expenses", "View All Expenses"},
       id \in ExpenseIds, f \in BillFiles :
        SaveBillPage(s, page, id, f[1], f[2], f[3])

FrameUserStatusStep ==
    \E s \in Sessions, u \in {v \in users : v.role = "hr"} : UserStatusPage(s, u.id)

FrameListStep ==
    \E s \in Sessions : (session[s].user_role = "hr" /\ OpenMyExpenses(s)) \/ EndRun(s)

NextFrame ==
    \/ FrameAddExpenseStep
    \/ FrameStage1Step
    \/ FrameStage2Step
    \/ FrameStage3Step
    \/ FrameSaveBillStep
    \/ FrameUserStatusStep
    \/ FrameListStep

SpecFrame == Init /\ [][NextFrame]_vars

NextClock ==
    \/ Tick
    \/ FrameAddExpenseStep
    \/ FrameStage1Step
    \/ FrameStage2Step
    \/ FrameStage3Step
    \/ FrameSaveBillStep

SpecClock == Init /\ [][NextClock]_vars

\* The columns of a row that say what the expense is
IdentityFields(e) ==
    <<e.id, e.date, e.brand, e.category, e.subcategory, e.amount, e.description,
      e.added_by, e.stage1_assigned_to, e.created_at>>

BillFields(e) == <<e.bill_document, e.bill_filename, e.bill_filetype>>

\* C19, on the state: row i of the table is the record with id i.
C19_RecordsKept == \A i \in 1..Len(expenses) : expenses[i].id = i

\* C19, on the step: no record disappears; every record keeps its id, date, brand,
\* category, amount, description, submitter and assignee; stage columns change
\* only in the step of a written decision on that stage of that record, bill
\* columns only in the step of a bill upload for that record.
C19_FrameStep ==
    /\ Len(expenses') >= Len(expenses)
    /\ \A i \in 1..Len(expenses) :
          /\ IdentityFields(expenses'[i]) = IdentityFields(expenses[i])
          /\ \A n \in 1..3 :
                StageFields(expenses'[i], n) # StageFields(expenses[i], n) =>
                    /\ last'.op \in StageOps /\ StageOf(last'.op) = n
                    /\ last'.id = i /\ last'.outcome = "written"
          /\ BillFields(expenses'[i]) # BillFields(expenses[i]) =>
                /\ last'.op = "bill" /\ last'.id = i

\* C19: records are never deleted and are mutated only through stage decisions;
\* after any sequence of operations every record created still exists with the
\* same id, date, brand, category, amount, description, submitter and assignee,
\* its stage fields changed by stage decisions only; a bill upload changes the
\* bill fields only.
C19_RecordsImmutable == []C19_RecordsKept /\ [][C19_FrameStep]_vars

\* A bill has just been uploaded for a record that is already paid, while the HR
\* account that created it is deactivated, and the stage columns are untouched.
C19_Witness ==
    /\ last.op = "bill" /\ last.outcome = "uploaded"
    /\ expenses[last.id].bill_filename = "bill.pdf"
    /\ expenses[last.id].stage3_status = "Paid"
    /\ expenses[last.id].stage3_transaction_ref = "TXN123"
    /\ \E u \in users : u.full_name = expenses[last.id].added_by /\ u.is_active = 0

\* The status a button writes
ButtonStatus(button) ==
    CASE button = "Approve" -> "Approved" [] button = "Reject" -> "Rejected"
      [] button = "Paid" -> "Paid"

\* The stage columns the decision of request q, taken at time t, is to leave
DecidedFields(q, t) ==
    IF q.op = "stage3"
    THEN <<ButtonStatus(q.button), q.by, t, q.remarks,
           IF q.button = "Paid" THEN q.payment_mode ELSE NULL,
           IF q.button = "Paid" THEN q.transaction_ref ELSE NULL>>
    ELSE <<ButtonStatus(q.button), q.by, t, q.remarks>>

\* C20: a successful decision at stage n of record r sets stage n's status, actor,
\* timestamp (the time of the decision) and remarks of r, and the payment mode and
\* transaction reference when n = 3; it leaves the other two stages of r, the
\* other columns of r and every other record as they were.  A rejection at stage 1
\* or 2 leaves the later stages Pending.
C20_DecisionFrame ==
    [][(last'.op \in StageOps /\ last'.outcome = "written" /\ expenses' # expenses) =>
          /\ StageFields(expenses'[last'.id], StageOf(last'.op)) = DecidedFields(last', now)
          /\ \A m \in 1..3 \ {StageOf(last'.op)} :
                StageFields(expenses'[last'.id], m) = StageFields(expenses[last'.id], m)
          /\ IdentityFields(expenses'[last'.id]) = IdentityFields(expenses[last'.id])
          /\ BillFields(expenses'[last'.id]) = BillFields(expenses[last'.id])
          /\ \A i \in 1..Len(expenses) : i # last'.id => expenses'[i] = expenses[i]
          /\ Len(expenses') = Len(expenses)
          /\ (last'.button = "Reject" /\ StageOf(last'.op) < 3) =>
                \A m \in (StageOf(last'.op) + 1)..3 :
                    StageStatus(expenses'[last'.id], m) = "Pending"]_vars

\* Stage 1 of the second record has just been rejected, at the second reading of
\* the clock, while the first record, decided earlier, is approved and carries a
\* bill.
C20_Witness ==
    /\ Len(expenses) = 2
    /\ last.op = "stage1" /\ last.button = "Reject" /\ last.outcome = "written"
    /\ last.id = 2
    /\ expenses[2].stage1_status = "Rejected" /\ expenses[2].stage1_approved_date = 2
    /\ expenses[2].stage2_status = "Pending" /\ expenses[2].stage3_status = "Pending"
    /\ expenses[1].stage1_status = "Approved" /\ expenses[1].stage1_approved_date = 1
    /\ expenses[1].bill_filename = "bill.pdf"

----------------------------------------------------------------------------
(* SpecAssign: the administrator creates further brand heads, who log in from a  *)
(* browser another user has logged out of, while expenses are assigned and       *)
(* decided at stage 1                                                            *)

\* <<username, password, full name>> of the brand heads the administrator creates
NewBrandHeads == {<<"swati.k", "swatik1", "Swati">>, <<"meera", "meera12", "Meera">>}

\* The browsers in which one user logs out and another logs in
SharedBrowsers == {4}

\* <<username, password>> typed into the login form
Logins == {<<"swati.k", "swatik1">>, <<"meera", "meera12">>, <<"meera", "">>,
           <<"swati.k", "meera12">>}

CreateBrandHeadStep ==
    \E s \in Sessions, a \in NewBrandHeads :
        CreateUserPage(s, a[1], a[2], a[3], "brand_heads")

LogoutStep == \E s \in SharedBrowsers : LogoutButton(s)

LoginStep == \E s \in SharedBrowsers, l \in Logins : LoginPage(s, l[1], l[2])

AssignAddExpenseStep ==
    \E s \in Submitters, assigned_to \in get_brand_heads(users) :
        AddExpensePage(s, 1, "Tejas", "Marketing", "Google", 150000, "d",
                       session[s].full_name, assigned_to, MaxExpenses)

AssignStage1Step ==
    \E s \in Sessions, id \in ExpenseIds, d \in RaceDecisions :
        Stage1Page(s, id, d[1], d[2])

NextAssign ==
    \/ CreateBrandHeadStep
    \/ LogoutStep
    \/ LoginStep
    \/ AssignAddExpenseStep
    \/ AssignStage1Step

SpecAssign == Init /\ [][NextAssign]_vars

\* The logged-in brand heads that find row e in their stage-1 queue
BrandHeadsSeeing(e) ==
    {session[s].username :
        s \in {t \in Sessions : /\ session[t].logged_in
                                /\ session[t].user_role = "brand_heads"
                                /\ e.id \in Ids(Stage1Queue(t))}}

\* C12: stage-1 assignee restriction.  A record with an assignee is in the stage-1
\* queue of one brand head at most, the assignee (brand heads told apart by their
\* username), so no other brand head sees it or can decide it; the administrator
\* sees every stage-1-pending record.
C12_AssigneeOnly ==
    \A e \in Rows :
        /\ Truthy(e.stage1_assigned_to) => Cardinality(BrandHeadsSeeing(e)) <= 1
        /\ e.stage1_status = "Pending" =>
              \A s \in Sessions :
                  (session[s].logged_in /\ session[s].user_role = "admin")
                      => e.id \in Ids(Stage1Queue(s))
----------------------------------------------------------------------------
(* SpecUsers: the administrator creates, deactivates, activates and deletes       *)
(* accounts and resets passwords; users change their password, log out and log    *)
(* in; expenses are assigned to the brand heads of the moment.                    *)

\* <<username, password, full name, role>> typed into the Create New User form
UserForms ==
    {<<"Swati ", "secret1", "Swati K", "hr">>,
     <<"meera", "meera12", "Meera", "brand_heads">>,
     <<"ravi", "abc", "Ravi", "hr">>}

\* The accounts whose buttons the administrator clicks
ManagedRoles == {"brand_heads", "accounts_team", "admin"}

\* <<username, password>> typed into the login form
UserLogins ==
    {<<"hansi", "hansi123">>, <<"hansi", "reset12">>, <<"hansi", "">>,
     <<"meera", "meera12">>, <<"ghost", "hansi123">>}

\* The passwords typed into a Reset Password form
ResetPasswords == {"reset12", "abc"}

\* <<current, new, confirm>> typed into the Change Password form
PasswordChanges ==
    {<<"swati123", "newpass1", "newpass1">>, <<"wrong12", "newpass1", "newpass1">>,
     <<"swati123", "newpass1", "newpass2">>}

UsersCreateStep ==
    \E s \in Sessions, f \in UserForms :
        /\ NextUserId(users) <= MaxUserId
        /\ CreateUserPage(s, f[1], f[2], f[3], f[4])

UsersStatusStep ==
    \E s \in Sessions, u \in {v \in users : v.role \in ManagedRoles} :
        UserStatusPage(s, u.id)

UsersDeleteStep ==
    \E s \in Sessions, u \in {v \in users : v.role \in {"brand_heads", "admin"}} :
        DeleteUserPage(s, u.id)

UsersResetStep ==
    \E s \in Sessions, u \in {v \in users : v.role \in {"accounts_team", "admin"}},
       new_pwd \in ResetPasswords :
        ResetPasswordPage(s, u.id, new_pwd)

UsersChangeStep ==
    \E s \in {t \in Sessions : session[t].user_role = "brand_heads"}, c \in PasswordChanges :
        ChangePasswordPage(s, c[1], c[2], c[3])

UsersLogoutStep == \E s \in SharedBrowsers : LogoutButton(s)

UsersLoginStep == \E s \in SharedBrowsers, l \in UserLogins : LoginPage(s, l[1], l[2])

UsersAddExpenseStep ==
    \E s \in Submitters,
       assigned_to \in {u.full_name : u \in users} \cup {NULL} :
        AddExpensePage(s, 1, "Tejas", "Marketing", "Google", 150000, "d",
                       session[s].full_name, assigned_to, MaxRaceExpenses)

NextUsers ==
    \/ UsersCreateStep
    \/ UsersStatusStep
    \/ UsersDeleteStep
    \/ UsersResetStep
    \/ UsersChangeStep
    \/ UsersLogoutStep
    \/ UsersLoginStep
    \/ UsersAddExpenseStep

SpecUsers == Init /\ [][NextUsers]_vars
\* The users of the table with this username whose stored secret is that of
\* secret and who are active
ActiveMatches(username, secret) ==
    {u \in users : u.username = username /\ u.password = Sha256(secret) /\ u.is_active = 1}

\* C21: authenticate(username, secret) returns an identity (username, display
\* name, role) if and only if a user with that username exists, the secret matches
\* the stored one and the user is active; for an inactive user or a wrong secret it
\* fails; a session becomes logged in only in the step of a successful
\* authenticate, and then as the identity returned.
C21_Authenticate ==
    [][/\ (last'.op = "login" /\ (last' # last \/ session' # session)) =>
             /\ last'.outcome = "welcome" <=> ActiveMatches(last'.by, last'.password) # {}
             /\ ActiveMatches(last'.by, last'.password) # {} =>
                   \E s \in Sessions, u \in ActiveMatches(last'.by, last'.password) :
                       /\ ~session[s].logged_in
                       /\ session'[s] = [logged_in |-> TRUE, username |-> u.username,
                                         full_name |-> u.full_name, user_role |-> u.role]
             /\ ActiveMatches(last'.by, last'.password) = {} => session' = session
       /\ \A s \in Sessions :
             (~session[s].logged_in /\ session'[s].logged_in) =>
                 last'.op = "login" /\ last'.outcome = "welcome"]_vars

\* A login with the right password of a deactivated account has just been refused,
\* in a browser nobody is logged in at.
C21_Witness ==
    /\ last.op = "login" /\ last.outcome = "error"
    /\ \E u \in users :
          /\ u.username = last.by /\ u.password = Sha256(last.password)
          /\ u.is_active = 0
    /\ \E s \in Sessions : ~session[s].logged_in
\* C22, on the state: no two rows of the users table have the same username.
C22_UniqueUsernames ==
    \A u, v \in users : u.username = v.username => u = v

\* C22, on the step: a Create New User submission whose username is already in
\* the table leaves the table as it was and, when the form was otherwise
\* complete, reports the duplicate.
C22_DuplicateStep ==
    (/\ last'.op = "create_user"
     /\ last' # last \/ users' # users
     /\ \E u \in users : u.username = last'.username) =>
        /\ users' = users
        /\ last'.outcome \in {"duplicate", "error"}
        /\ last'.outcome = "duplicate" <=> Len(last'.password) >= 6

\* C22: creating a user whose username already exists fails with the
\* duplicate-username error and leaves the users table unchanged; in every
\* reachable state usernames are unique.
C22_DuplicateUsername == []C22_UniqueUsernames /\ [][C22_DuplicateStep]_vars

\* The form asked for the username of the brand head Swati (typed "Swati ") with
\* another name, role and password; the duplicate was reported and Swati's row is
\* what it was.
C22_Witness ==
    /\ last.op = "create_user" /\ last.username = "swati" /\ last.outcome = "duplicate"
    /\ \E u \in users :
          /\ u.username = "swati" /\ u.full_name = "Swati" /\ u.role = "brand_heads"
          /\ u.password = Sha256("swati123") /\ u.id = 2
\* The names of the users that are active brand heads now
ActiveBrandHeadNames ==
    {u.full_name : u \in {v \in users : v.is_active = 1 /\ v.role = "brand_heads"}}

\* C23: the assign-to choices of the Add Expense form are exactly the active
\* users with role brand_heads of that moment: the value a submission carries is
\* one of them, or none when there is none, and the record a submission has just
\* stored is assigned to one of them; deactivated or deleted users and users of
\* other roles are never offered.
C23_AssigneeChoices ==
    /\ get_brand_heads(users) = ActiveBrandHeadNames
    /\ last.op = "add" =>
          /\ last.assigned_to \in ActiveBrandHeadNames \cup {NULL}
          /\ last.assigned_to = NULL <=> ActiveBrandHeadNames = {}
          /\ last.outcome = "added" =>
                /\ expenses[Len(expenses)].stage1_assigned_to = last.assigned_to
                /\ last.assigned_to \in ActiveBrandHeadNames

\* With the brand head Swati deactivated and the brand head Meera created, an
\* expense has just been stored with Meera as its assignee.
C23_Witness ==
    /\ last.op = "add" /\ last.outcome = "added" /\ last.assigned_to = "Meera"
    /\ \E u \in users : u.username = "swati" /\ u.is_active = 0
    /\ ActiveBrandHeadNames = {"Meera"}
\* The ids of the accounts of a users table
UserIds(us) == {u.id : u \in us}

\* One step keeps the username, full name and role of every account it keeps,
\* gives a new account an id no account has had, and adds an account or flips
\* an is_active flag only on a request of a session whose role is admin.
C24_IdentityStep ==
    /\ \A u \in users, v \in users' :
          u.id = v.id => /\ v.username = u.username
                         /\ v.full_name = u.full_name
                         /\ v.role = u.role
    /\ \A v \in users' : v.id \notin UserIds(users) => v.id > sqlite_sequence
    /\ (\/ UserIds(users') \ UserIds(users) # {}
        \/ \E u \in users, v \in users' : u.id = v.id /\ u.is_active # v.is_active)
          => /\ last'.op \in {"create_user", "user_status"}
             /\ RolesNamed(last'.by) = {"admin"}

\* C24: accounts are created, activated and deactivated only by sessions of
\* role admin, and apart from is_active and the password an account never
\* changes: its username, full name and role stay what they were at creation.
C24_IdentityImmutable == [][C24_IdentityStep]_vars

\* The administrator has created Meera, deactivated her and activated her
\* again after her password was in use, and Swati has changed her own password.
C24_Witness ==
    /\ last.op = "user_status" /\ last.id = 6
    /\ \E u \in users : /\ u.id = 6 /\ u.username = "meera" /\ u.role = "brand_heads"
                        /\ u.full_name = "Meera" /\ u.is_active = 1
    /\ \E u \in users : u.username = "swati" /\ u.password = Sha256("newpass1")
-----------------------------------------------------------------------------
(* SpecDash: expenses of two brands are added and decided, and then the      *)
(* Dashboard is opened, again and again, with a brand and a status filter    *)

\* <<brand, amount>> of the Add Expense forms
DashForms == {<<"Tejas", 1000>>, <<"Tejas", 500>>, <<"Tejas", 2000>>, <<"FundoBaBa", 500>>}

DashIds == 1..MaxDashExpenses
\* The brand head and the second approver approve, the accounts team pays
DashDecisions == {<<"Approve", "">>}
DashPayments == {<<"Paid", "TXN123", "">>}
DashBrands == {"All"}
DashStatuses == {"All", "Paid"}
DashViewers == {s \in Sessions : session[s].user_role = "accounts_team"}

DashAddExpenseStep ==
    \E s \in Submitters, f \in DashForms, assigned_to \in get_brand_heads(users) :
        /\ metrics = NoMetrics
        /\ AddExpensePage(s, 1, f[1], "Marketing", "Google", f[2], "d",
                          session[s].full_name, assigned_to, MaxDashExpenses)

DashStage1Step ==
    \E s \in Approvers, id \in DashIds, d \in DashDecisions :
        metrics = NoMetrics /\ Stage1Page(s, id, d[1], d[2])

DashStage2Step ==
    \E s \in Approvers, id \in DashIds, d \in DashDecisions :
        metrics = NoMetrics /\ Stage2Page(s, id, d[1], d[2])

DashStage3Step ==
    \E s \in Approvers, id \in DashIds, p \in DashPayments :
        metrics = NoMetrics /\ Stage3Page(s, id, p[1], "UPI", p[2], p[3])

DashboardStep ==
    \E s \in DashViewers, selected_brand \in DashBrands, selected_status \in DashStatuses :
        DashboardPage(s, selected_brand, selected_status)

NextDash ==
    \/ DashAddExpenseStep
    \/ DashStage1Step
    \/ DashStage2Step
    \/ DashStage3Step
    \/ DashboardStep

SpecDash == Init /\ [][NextDash]_vars

\* The rows of the store that pass the filters the Dashboard last ran with
PassingRows ==
    {i \in 1..Len(expenses) :
        /\ metrics.selected_brand \in {"All", expenses[i].brand}
        /\ StatusFilter(metrics.selected_status, expenses[i])}

\* The sum of the amounts of a set of rows of the store
RECURSIVE SumOfRows(_)
SumOfRows(rows) ==
    IF rows = {} THEN 0
    ELSE LET i == CHOOSE j \in rows : TRUE
         IN  expenses[i].amount + SumOfRows(rows \ {i})

\* The figures the Dashboard showed are those of the store as it is now
MetricsCurrent ==
    /\ metrics # NoMetrics
    /\ metrics.filtered = {expenses[i].id : i \in PassingRows}

\* C25: the brand summary of the Dashboard adds up exactly the records that pass
\* the filter: under Paid these are the records whose stage3_status is Paid,
\* each brand's total is the sum of the amounts of that brand's passing
\* records, brands without a passing record are not listed, and the number of
\* transactions is the number of passing records; Paid records of 1000 and
\* 500 and a third, unpaid record of 2000 of one brand give 1500 and 2.
C25_BrandSummary ==
    MetricsCurrent =>
        /\ metrics.selected_status = "Paid" =>
              PassingRows = {i \in 1..Len(expenses) :
                                /\ metrics.selected_brand \in {"All", expenses[i].brand}
                                /\ expenses[i].stage3_status = "Paid"}
        /\ metrics.total_transactions = Cardinality(PassingRows)
        /\ metrics.total_expenses = SumOfRows(PassingRows)
        /\ {metrics.brand_summary[k].brand : k \in 1..Len(metrics.brand_summary)}
              = {expenses[i].brand : i \in PassingRows}
        /\ \A k \in 1..Len(metrics.brand_summary) :
              metrics.brand_summary[k].amount =
                  SumOfRows({i \in PassingRows :
                                expenses[i].brand = metrics.brand_summary[k].brand})
        /\ \A k, l \in 1..Len(metrics.brand_summary) :
              k # l => metrics.brand_summary[k].brand # metrics.brand_summary[l].brand
        /\ (/\ metrics.selected_status = "Paid"
            /\ Len(expenses) = 3
            /\ \A i \in 1..3 : expenses[i].brand = "Tejas"
            /\ {expenses[i].amount : i \in {j \in 1..3 : expenses[j].stage3_status = "Paid"}}
                  = {1000, 500}
            /\ \E i \in 1..3 : expenses[i].amount = 2000 /\ expenses[i].stage3_status # "Paid"
            /\ Cardinality({j \in 1..3 : expenses[j].stage3_status = "Paid"}) = 2)
              => /\ metrics.brand_summary = <<[brand |-> "Tejas", amount |-> 1500]>>
                 /\ metrics.total_transactions = 2

\* The Dashboard has run under Paid on Tejas records of 1000 and 500, both
\* Paid, and a Tejas record of 2000 that waits for stage 2.
C25_Witness ==
    /\ MetricsCurrent
    /\ metrics.selected_status = "Paid"
    /\ Len(expenses) = 3
    /\ \A i \in 1..3 : expenses[i].brand = "Tejas"
    /\ \E i, j, k \in 1..3 :
          /\ expenses[i].amount = 1000 /\ expenses[i].stage3_status = "Paid"
          /\ expenses[j].amount = 500 /\ expenses[j].stage3_status = "Paid"
          /\ expenses[k].amount = 2000 /\ expenses[k].stage2_status = "Pending"
          /\ expenses[k].stage1_status = "Approved"
    /\ metrics.brand_summary = <<[brand |-> "Tejas", amount |-> 1500]>>
    /\ metrics.total_transactions = 2
-----------------------------------------------------------------------------
(* SpecRound: expenses are created from varied forms and read back by the    *)
(* listings of the View All Expenses and My Expenses pages                   *)

\* <<date, brand, category, subcategory, amount, description, added_by>> typed
\* into the Add Expense form, the amounts in hundredths of a rupee
RoundForms ==
    {<<1, "Tejas", "Marketing", "Google", 150050, "ads", "Harsh">>,
     <<2, "Zepto", "Rental", NULL, 1, "", "Harsh">>,
     <<1, "Zepto", "Assets", "SIM", 99999, "sim card", "H. R.">>,
     <<2, "Tejas", "Salaries", NULL, 0, "none", "Harsh">>,
     <<1, "Tejas", "Petty Cash", NULL, 250, "tea", "">>}

RoundAddExpenseStep ==
    \E s \in Submitters, f \in RoundForms, assigned_to \in get_brand_heads(users) :
        AddExpensePage(s, f[1], f[2], f[3], f[4], f[5], f[6], f[7], assigned_to, MaxExpenses)

RoundStage1Step ==
    \E s \in Approvers, id \in ExpenseIds, d \in RaceDecisions :
        Stage1Page(s, id, d[1], d[2])

RoundOpenStep ==
    \E s \in Viewers : OpenViewAll(s) \/ OpenMyExpenses(s)

RoundEndStep == \E s \in Viewers : EndRun(s)

NextRound ==
    \/ RoundAddExpenseStep
    \/ RoundStage1Step
    \/ RoundOpenStep
    \/ RoundEndStep

SpecRound == Init /\ [][NextRound]_vars

\* The fields of a row that the Add Expense form supplies equal the inputs of
\* the request
InputsReturned(r, request) ==
    /\ r.date = request.date
    /\ r.brand = request.brand
    /\ r.category = request.category
    /\ r.subcategory = request.subcategory
    /\ r.amount = request.amount
    /\ r.description = request.description
    /\ r.added_by = request.added_by
    /\ r.stage1_assigned_to = request.assigned_to

\* The rows of a listing that carry the id
RowsOfId(rows, id) == {i \in 1..Len(rows) : rows[i].id = id}

\* A successful create appends one row, and each read of the store after it
\* (all expenses, and the expenses of the submitter named in the form) returns
\* that row once with the values of the form; opening a listing leaves the
\* store as it is and lists rows as they are stored.
C26_RoundTripStep ==
    /\ (expenses' # expenses /\ last'.op = "add") =>
          LET id == Len(expenses')
              all == get_all_expenses(expenses')
              own == get_expenses_by_user(expenses', last'.added_by)
          IN  /\ last'.outcome = "added"
              /\ Len(expenses') = Len(expenses) + 1
              /\ SubSeq(expenses', 1, Len(expenses)) = expenses
              /\ Cardinality(RowsOfId(all, id)) = 1
              /\ Cardinality(RowsOfId(own, id)) = 1
              /\ \A i \in RowsOfId(all, id) : InputsReturned(all[i], last')
              /\ \A i \in RowsOfId(own, id) : InputsReturned(own[i], last')
    /\ pending' # pending =>
          /\ expenses' = expenses
          /\ \A s \in {t \in Sessions : pending'[t] # pending[t]} :
                \A i \in 1..Len(pending'[s]) : pending'[s][i] = expenses[pending'[s][i].id]

StageDate(e, n) ==
    CASE n = 1 -> e.stage1_approved_date [] n = 2 -> e.stage2_approved_date
      [] n = 3 -> e.stage3_paid_date

\* C27: in every reachable state, for every record and every stage n, stage n
\* is Pending exactly when its actor and its timestamp are unset: an undecided
\* stage has neither, a decided stage has both.
C27_DecidedHasActorAndTime ==
    \A e \in Rows : \A n \in 1..3 :
        /\ StageStatus(e, n) = "Pending" =>
              StageActor(e, n) = NULL /\ StageDate(e, n) = NullTime
        /\ StageStatus(e, n) # "Pending" =>
              /\ Truthy(StageActor(e, n))
              /\ StageDate(e, n) # NullTime
              /\ StageDate(e, n) <= now

\* Stages 1 and 2 of a record have been decided, the second at a later time
\* than the first, and stage 3 has not.
C27_Witness ==
    \E e \in Rows :
        /\ e.stage1_status = "Approved" /\ e.stage1_approved_by = "Swati"
        /\ e.stage2_status = "Rejected" /\ e.stage2_approved_by = "Shruti"
        /\ e.stage2_approved_date > e.stage1_approved_date
        /\ e.stage3_status = "Pending" /\ e.stage3_paid_by = NULL
\* C28: in every reachable state a record's payment mode and transaction
\* reference are set exactly when its stage3_status is Paid: both are unset
\* while stage 3 is Pending, and a stage-3 rejection leaves both unset.
C28_PaymentFieldsIffPaid ==
    \A e \in Rows :
        /\ e.stage3_status = "Paid" =>
              e.stage3_payment_mode \in PAYMENT_MODES /\ Truthy(e.stage3_transaction_ref)
        /\ e.stage3_status # "Paid" =>
              e.stage3_payment_mode = NULL /\ e.stage3_transaction_ref = NULL
        /\ e.stage3_status \in {"Pending", "Paid", "Rejected"}

\* A record has just been marked Paid with a mode and a reference, while
\* another stage-3 page that read the queue before still shows it.
C28_Witness ==
    /\ last.op = "stage3" /\ last.button = "Paid" /\ last.outcome = "written"
    /\ \E e \in Rows :
          /\ e.id = last.id /\ e.stage3_status = "Paid"
          /\ e.stage3_payment_mode = last.payment_mode
          /\ e.stage3_transaction_ref = "TXN123"
    /\ \E s \in Sessions : \E i \in 1..Len(pending[s]) :
          pending[s][i].id = last.id /\ pc[s] = "stage3"
\* The ids of the records in the pending queue of stage n, the stage-1 queue
\* taken without an assignee
QueueIds(n) == Ids(get_expenses_for_approval(expenses, n, NULL))

\* C29: queue partition.  In every reachable state each record is in at most
\* one of the three pending queues, it is in the queue of stage n exactly when
\* stage n is Pending and (n = 1 or stage n-1 is Approved), and it is in some
\* queue exactly when its overall status is one of the three waiting labels,
\* so that Paid and Rejected records are in no queue.
C29_QueuePartition ==
    \A e \in Rows :
        /\ Cardinality({n \in 1..3 : e.id \in QueueIds(n)}) <= 1
        /\ \A n \in 1..3 :
              e.id \in QueueIds(n) <=>
                  /\ StageStatus(e, n) = "Pending"
                  /\ n = 1 \/ StageStatus(e, n - 1) = "Approved"
        /\ (\E n \in 1..3 : e.id \in QueueIds(n)) <=>
              get_overall_status(e) \in {WaitingLabel(n) : n \in 1..3}
        /\ get_overall_status(e) \in {"Paid", "Rejected"} =>
              \A n \in 1..3 : e.id \notin QueueIds(n)
\* The five choices of the status filter that name a status
StatusChoices == {status_options[k] : k \in 2..Len(status_options)}

\* The label of get_overall_status a choice of the status filter stands for
FilterLabel(selected_status) ==
    CASE selected_status = "Stage 1 Pending" -> "Stage 1 Approval Pending"
      [] selected_status = "Stage 2 Pending" -> "Stage 2 Approval Pending"
      [] OTHER -> selected_status

\* C30: on every reachable record the status filter of the Dashboard and View
\* All Expenses pages agrees with get_overall_status: each of the filters Stage 1
\* Pending, Stage 2 Pending, Payment Pending, Paid and Rejected selects the
\* record exactly when get_overall_status returns the label it stands for, so
\* exactly one of the five selects it.
C30_FilterMatchesOverallStatus ==
    \A e \in Rows :
        /\ \A f \in StatusChoices :
              StatusFilter(f, e) <=> get_overall_status(e) = FilterLabel(f)
        /\ Cardinality({f \in StatusChoices : StatusFilter(f, e)}) = 1
\* The names a history or a stage-1 queue can be asked for
ActorNames == {u.full_name : u \in users} \cup {session[s].full_name : s \in Sessions}

\* The names in whose stage-n history record e is
HistoryNames(e, n) ==
    {a \in ActorNames : e.id \in Ids(get_approved_expenses_by_user(expenses, a, n))}

\* C31: after a written decision at stage n of record r by actor a, r is in no
\* stage-n pending queue (whoever asks) and r is in the stage-n history of a;
\* in every reachable state a record decided at stage n is in the stage-n
\* history of exactly one name, the actor the stage records, and a record
\* Pending at stage n is in nobody's.
C31_DecisionHistory ==
    /\ (last.op \in StageOps /\ last.outcome = "written") =>
          LET n == StageOf(last.op) IN
              /\ last.id \notin Ids(get_expenses_for_approval(expenses, n, NULL))
              /\ \A a \in ActorNames :
                    last.id \notin Ids(get_expenses_for_approval(expenses, n, a))
              /\ last.id \in Ids(get_approved_expenses_by_user(expenses, last.by, n))
    /\ \A e \in Rows : \A n \in 1..3 :
          IF StageStatus(e, n) = "Pending"
          THEN HistoryNames(e, n) = {}
          ELSE HistoryNames(e, n) = {StageActor(e, n)}

\* The admin approved stage 1 and Swati, whose page had read the queue before,
\* has just rejected it: the record is in Swati's stage-1 history only.
C31_Witness ==
    /\ last.op = "stage1" /\ last.by = "Swati" /\ last.button = "Reject"
    /\ last.outcome = "written"
    /\ \E e \in Rows :
          /\ e.id = last.id
          /\ e.stage1_approved_date > e.created_at
          /\ HistoryNames(e, 1) = {"Swati"}
          /\ e.stage2_status = "Approved"
\* C32: with every page run atomic (the run that handles a click reads the
\* pending queue of the stage again and writes in the same step) each stage of
\* each record is decided at most once: a decided stage keeps its status,
\* actor, time and remarks, and a click for a record that is not in the
\* stage's pending queue writes nothing.
C32_DecidedOnceStep ==
    /\ \A i \in 1..Len(expenses), n \in 1..3 :
          StageStatus(expenses[i], n) # "Pending" =>
              /\ StageFields(expenses'[i], n) = StageFields(expenses[i], n)
              /\ (last'.op \in StageOps /\ StageOf(last'.op) = n /\ last'.id = i)
                    => last'.outcome = "not_rendered" /\ expenses' = expenses
    /\ (last'.op \in StageOps
        /\ last'.id \notin Ids(get_expenses_for_approval(expenses, StageOf(last'.op), NULL)))
          => expenses' = expenses /\ last'.outcome = "not_rendered"

C32_DecidedAtMostOnce == [][C32_DecidedOnceStep]_vars

\* The brand head approved stage 1 of a record and the administrator's click
\* on the same record has found it gone from the stage-1 queue.
C32_Witness ==
    /\ last.op = "stage1" /\ last.outcome = "not_rendered"
    /\ last.by = "System Administrator"
    /\ \E e \in Rows :
          /\ e.id = last.id /\ e.stage1_status = "Approved"
          /\ e.stage1_approved_by = "Swati"
\* C33: when the read of a pending queue and the later write of a session are
\* separate steps that interleave with the steps of other sessions, every
\* record whose stage3_status is Paid still has stage 1 and stage 2 Approved,
\* and no record has both a Rejected stage and stage3_status Paid.
C33_PaidMeansApproved ==
    \A e \in Rows :
        e.stage3_status = "Paid" =>
            /\ e.stage1_status = "Approved"
            /\ e.stage2_status = "Approved"
            /\ \A n \in 1..3 : StageStatus(e, n) # "Rejected"
\* The names of the accounts that exist and are active
ActiveNames(us) == {u.full_name : u \in {v \in us : v.is_active = 1}}

\* C34: an identity that an admin has deactivated or deleted takes no further
\* stage decision and creates no further expense, a session it had logged in
\* before included: whenever a stage is written the actor of the write is an
\* active account at that moment, and so is the submitter of a new expense.
C34_ActorIsActiveStep ==
    expenses' # expenses =>
        /\ (last'.op \in StageOps /\ last'.outcome = "written")
              => last'.by \in ActiveNames(users)
        /\ (last'.op = "add" /\ last'.outcome = "added")
              => last'.added_by \in ActiveNames(users)

C34_NoActionAfterDeactivation == [][C34_ActorIsActiveStep]_vars
\* The accounts with username admin
AdminAccounts == {u \in users : u.username = "admin"}

\* C35: the built-in account admin is permanent: after any sequence of User
\* Management actions (create, activate / deactivate, delete, reset password)
\* there is one user with username admin, of role admin and active.
C35_AdminPermanent ==
    /\ Cardinality(AdminAccounts) = 1
    /\ \A u \in AdminAccounts : u.role = "admin" /\ u.is_active = 1 /\ u.id = 1

\* The administrator's password has been reset, a brand head created and
\* another deleted, and an account has just been deactivated.
C35_Witness ==
    /\ last.op = "user_status" /\ last.outcome = "updated"
    /\ \E u \in users : u.id = last.id /\ u.is_active = 0
    /\ \A u \in users : u.username # "swati"
    /\ \E u \in users : u.username = "meera"
    /\ \E u \in AdminAccounts : u.password = Sha256("reset12")
-----------------------------------------------------------------------------
(* SpecProgress: one expense is added and decided while the administrator    *)
(* deactivates, reactivates and deletes approvers; eligible decisions are    *)
(* taken fairly                                                              *)

\* The accounts the administrator deactivates and deletes
ProgressTargets == {u \in users : u.role \in {"brand_heads", "stage2_approver"}}

\* The sessions of accounts that exist and are active
ActiveSessions ==
    {s \in Sessions :
        /\ session[s].logged_in
        /\ \E u \in users : u.username = session[s].username /\ u.is_active = 1}

ProgressAddExpenseStep ==
    \E s \in Submitters, assigned_to \in get_brand_heads(users) :
        AddExpensePage(s, 1, "Tejas", "Marketing", "Google", 150000, "d",
                       session[s].full_name, assigned_to, MaxRaceExpenses)

ProgressStatusStep ==
    \E s \in Sessions, u \in ProgressTargets : UserStatusPage(s, u.id)

ProgressDeleteStep ==
    \E s \in Sessions, u \in ProgressTargets : DeleteUserPage(s, u.id)

\* A decision of an active account's session on record id that is written
ProgressDecide(id) ==
    /\ \E s \in ActiveSessions :
          \/ \E d \in RaceDecisions : Stage1Page(s, id, d[1], d[2])
          \/ \E d \in RaceDecisions : Stage2Page(s, id, d[1], d[2])
          \/ \E p \in RacePayments : Stage3Page(s, id, p[1], "UPI", p[2], p[3])
    /\ expenses' # expenses

ProgressDecideStep == \E id \in RaceIds : ProgressDecide(id)

\* A click that writes nothing: a rejection without remarks
ProgressRefusedStep ==
    \E s \in ActiveSessions, id \in RaceIds :
        Stage1Page(s, id, "Reject", "") \/ Stage2Page(s, id, "Reject", "")

NextProgress ==
    \/ ProgressAddExpenseStep
    \/ ProgressStatusStep
    \/ ProgressDeleteStep
    \/ ProgressDecideStep
    \/ ProgressRefusedStep

SpecProgress ==
    Init /\ [][NextProgress]_vars /\ \A id \in RaceIds : WF_vars(ProgressDecide(id))

\* The page on which stage n is decided
StagePageName(n) ==
    CASE n = 1 -> "Approval Stage 1" [] n = 2 -> "Approval Stage 2"
      [] n = 3 -> "Approval Stage 3"

\* The queue the page of stage n shows to account u
QueueOfUser(u, n) ==
    IF n = 1 /\ u.role = "brand_heads"
    THEN get_expenses_for_approval(expenses, 1, u.full_name)
    ELSE get_expenses_for_approval(expenses, n, NULL)

\* The active accounts that can open a stage page on which record e waits
EligibleDeciders(e) ==
    {u \in users :
        /\ u.is_active = 1
        /\ \E n \in 1..3 :
              /\ CanOpen(u.role, StagePageName(n))
              /\ e.id \in Ids(QueueOfUser(u, n))}

Settled(e) == get_overall_status(e) \in {"Paid", "Rejected"}

\* Every record that is not Paid or Rejected has a decision an active account
\* can take
C36_SomeoneCanDecide ==
    \A e \in Rows : ~Settled(e) => EligibleDeciders(e) # {}

\* C36: progress.  In every reachable state every record whose overall status
\* is not Paid or Rejected has a decision that some active account is eligible
\* to take, also when its assignee has been deactivated or deleted or no user
\* of the stage's role is left; with eligible decisions taken fairly every
\* created record eventually is Paid or Rejected.
C36_Progress ==
    /\ []C36_SomeoneCanDecide
    /\ \A id \in RaceIds :
          (Len(expenses) >= id) ~> (Len(expenses) >= id /\ Settled(expenses[id]))

\* The brand head the record was assigned to has been deleted, the second
\* approver deactivated, and the record has been paid all the same.
C36_Witness ==
    /\ \A u \in users : u.role # "brand_heads"
    /\ \E u \in users : u.role = "stage2_approver" /\ u.is_active = 0
    /\ \E e \in Rows :
          /\ e.stage1_assigned_to = "Swati"
          /\ e.stage1_approved_by = "System Administrator"
          /\ e.stage2_approved_by = "System Administrator"
          /\ e.stage3_status = "Paid"
\* A new expense is stored under the name of the session that submitted it
\* and is listed by My Expenses for that name and for no other name.
C37_AttributedStep ==
    (expenses' # expenses /\ last'.op = "add") =>
        LET e == expenses'[Len(expenses')]
            Listed(a) == e.id \in Ids(get_expenses_by_user(expenses', a))
        IN  /\ e.added_by = last'.by
            /\ Listed(last'.by)
            /\ \A a \in ActorNames \cup {e.added_by} : a # last'.by => ~Listed(a)

\* C37: every expense created in the session of user u is attributed to u: its
\* submitter is u's name, and it is in u's My Expenses list and in no other
\* user's, then and in every later state.
C37_AttributedToSession ==
    /\ [][C37_AttributedStep]_vars
    /\ [][\A i \in 1..Len(expenses) : expenses'[i].added_by = expenses[i].added_by]_vars
\* The passwords somebody may type into the login form
KnownPasswords ==
    {"admin123", "swati123", "shruti123", "hansi123", "harsh123", "newpass1", "newpass2",
     "wrong12", "reset12", "meera12", "secret1"}

\* One Change Password request of the account name with old and new as typed
C38_ChangeStep ==
    (last'.op = "change_password" /\ (last' # last \/ users' # users)) =>
        LET name == last'.username
            old == last'.current_password
            new == last'.password
        IN  /\ last'.outcome \in {"changed", "error"}
            /\ last'.outcome = "changed" => PasswordMatches(users, name, old)
            /\ ~PasswordMatches(users, name, old) => last'.outcome = "error"
            /\ last'.outcome = "error" => users' = users
            /\ last'.outcome = "changed" =>
                  /\ users' = {IF u.username = name
                                THEN [u EXCEPT !.password = Sha256(new)] ELSE u : u \in users}
                  /\ authenticate_user(users', name, new) # {}
                  /\ new # old => authenticate_user(users', name, old) = {}
            /\ \A u \in users : \A pwd \in KnownPasswords :
                  u.username # name =>
                      (authenticate_user(users', u.username, pwd) = {}
                          <=> authenticate_user(users, u.username, pwd) = {})

\* C38: change_password(username, old, new) changes the password only when
\* old matches the stored one: with a wrong old password it fails and the users
\* table stays as it is; on success only that user's password changes, and
\* afterwards authenticate succeeds with new and, when new differs from old,
\* fails with old; the authentication of no other user changes.
C38_ChangePassword == [][C38_ChangeStep]_vars

----------------------------------------------------------------------------
(* SpecInit: script runs that do nothing but the start-up initialisation, between  *)
(* the administrator's changes to the users table, password changes of the admin   *)
(* account and the first steps of the workflow                                     *)

\* init_db(), called at module level on every script run: CREATE TABLE IF NOT
\* EXISTS keeps existing tables, the admin row is inserted only when no row has
\* the username admin, and the ALTER TABLE statements run only for missing columns
init_db ==
    /\ users' = init_db_users(users)
    /\ sqlite_sequence' = IF users' = users THEN sqlite_sequence ELSE sqlite_sequence + 1
    /\ last' = [NoRequest EXCEPT !.op = "init_db", !.outcome = "done"]
    /\ UNCHANGED <<expenses, session, now, pc, pending, row, overall, metrics>>

\* <<current, new, confirm>> typed into the Change Password form by the admin
AdminPasswordChanges ==
    {<<"admin123", "newpass1", "newpass1">>, <<"admin123", "abc", "abc">>}

InitChangeStep ==
    \E s \in {t \in Sessions : session[t].user_role = "admin"}, c \in AdminPasswordChanges :
        ChangePasswordPage(s, c[1], c[2], c[3])

InitStage1Step ==
    \E s \in Sessions, id \in RaceIds, button \in {"Approve", "Reject"} :
        Stage1Page(s, id, button, IF button = "Reject" THEN "duplicate" ELSE NULL)

NextInit ==
    \/ init_db
    \/ UsersCreateStep
    \/ UsersStatusStep
    \/ UsersDeleteStep
    \/ UsersResetStep
    \/ InitChangeStep
    \/ UsersAddExpenseStep
    \/ InitStage1Step

SpecInit == Init /\ [][NextInit]_vars

\* One run of the start-up initialisation
C39_InitStep ==
    (last'.op = "init_db" /\ last' # last) =>
        /\ users' = users
        /\ expenses' = expenses
        /\ sqlite_sequence' = sqlite_sequence

\* Exactly one row has the username admin
C39_OneAdmin == Cardinality({u \in users : u.username = "admin"}) = 1

\* C39: the start-up initialisation is idempotent and non-destructive: run in
\* any reachable state, any number of times, init_db leaves every existing
\* expense and user unchanged, never creates a second admin user and never
\* resets the admin's password after it has been changed.
C39_InitIdempotent == []C39_OneAdmin /\ [][C39_InitStep]_vars

\* init_db has just run after the admin's password was changed, a user was
\* created and deleted and an expense was decided
C39_Witness ==
    /\ last.op = "init_db"
    /\ \E u \in users : u.username = "admin" /\ u.password # Sha256("admin123")
    /\ \E u \in users : u.id > 5
    /\ Cardinality(users) < 6
    /\ Len(expenses) > 0
    /\ expenses[1].stage1_status # "Pending"

====
